---- MODULE Spec2Model ----
(***************************************************************************)
(* ThreadKeeper: identity allocation (durable ID + short alias), the       *)
(* attachment ledger (attachments.jsonl) and its replay reducer.           *)
(*                                                                         *)
(* Specifications of this module:                                          *)
(*   Spec        the commands on the record store, one at a time           *)
(*   SpecRace    two processes allocating short aliases step by step       *)
(*   SpecStore   one FileStore call or reindex run on bounded record sets  *)
(*   SpecID      GenerateID at consecutive milliseconds, byte by byte      *)
(*   SpecBlob    storeBlob on one thread directory, with failing writes    *)
(*   SpecPath    blobPath on bounded blob references                       *)
(*   SpecAttach  runAttachNote / runAttachLink on one thread, with every   *)
(*               step able to fail                                         *)
(*   SpecSave    FileStore.Save and the rewrite of thread.json, one file   *)
(*               system call at a time, with failing and stopped writes    *)
(*   SpecThread  updateThreadAttachmentsLog and the record-saving commands *)
(*               on record files with attachments_log / unknown fields     *)
(*   SpecLoad    loadAttachmentsWithMetadata on bounded ledger files       *)
(*   SpecLedger  appendAttachmentEvent / load on a ledger that starts      *)
(*               absent, with failing writes                               *)
(*   SpecReduce  computeCurrentAttachments applied to bounded event lists  *)
(***************************************************************************)
EXTENDS Integers, Sequences, FiniteSets, TLC

VARIABLES
    ccEvents,   \* the []AttachmentEvent handed to computeCurrentAttachments
    ccResult,   \* what one call returned
    ccRerun,    \* what a second call on the same input returned
    ccDone,     \* TRUE once both calls have returned
    ledger,     \* the file <thread-dir>/attachments.jsonl
    ldResult,   \* what the last loadAttachmentsWithMetadata call returned
    ldValid,    \* TRUE while ldResult was read from the current file content
    ldPrev,     \* the file as it was before the last appendAttachmentEvent call
    appended,   \* the events of the calls that returned nil, in call order
    failures,   \* number of appendAttachmentEvent calls that returned an error
    tasks,      \* the record files: durable ID -> the Task the file holds
    clock,      \* time.Now(), in seconds
    pc,         \* per process: where it is in its command
    local,      \* per process: the *task.Task it holds in memory
    stCall,     \* the last FileStore call: its arguments, the store before, its result
    idGen,      \* two GenerateID calls: their clock readings, random bytes, results
    blobs,      \* <thread-dir>/attachments/blobs: file name -> content
    blobLog,    \* the storeBlob calls made, in order, with what each returned
    pathCall,   \* the last blobPath call: the blob reference and the path returned
    logged,     \* the records for which updateThreadAttachmentsLog returned nil
    reopenCall, \* the last RunReopen call: its arguments, the store before, its exit code
    disk        \* the record directory as os.WriteFile and os.Rename see it:
                \* path -> the data written and whether all of it was written

ccVars == <<ccEvents, ccResult, ccRerun, ccDone>>
ldVars == <<ledger, ldResult, ldValid, ldPrev, appended, failures>>
stVars == <<tasks, clock, pc, local>>
extVars == <<pathCall, logged, reopenCall, disk>>
auxVars == <<stCall, idGen, blobs, blobLog, extVars>>

vars == <<ccEvents, ccResult, ccRerun, ccDone,
          ledger, ldResult, ldValid, ldPrev, appended, failures,
          tasks, clock, pc, local,
          stCall, idGen, blobs, blobLog,
          pathCall, logged, reopenCall, disk>>

(***************************************************************************)
(* Bounds                                                                  *)
(***************************************************************************)
MaxEvents == 3
MaxLines == 3
MaxAppends == 3
MaxTasks == 2
MaxClock == 2
MaxShortID == 2

(***************************************************************************)
(* AttachmentEvent values.  TS is an RFC3339 string in the code and is     *)
(* only ever compared with the string order; a timestamp is represented    *)
(* here by its rank in that order.                                         *)
(***************************************************************************)
AttIDs == {"att1", "att2"}
TSValues == 1..2
Names == {"v1", "v2"}
\* Attachment.Blob is a *BlobRef: nil, or a pointer to a BlobRef.
NoBlob == [set |-> FALSE, Algo |-> "", Hash |-> ""]
BlobRef(algo, hash) == [set |-> TRUE, Algo |-> algo, Hash |-> hash]

Attachment(id, kind, name, media, blob, size, url, label) ==
    [AttID |-> id, Kind |-> kind, Name |-> name, MediaType |-> media,
     Blob |-> blob, Size |-> size, URL |-> url, Label |-> label]

AttachmentEvent(op, ts, att) == [Op |-> op, TS |-> ts, Att |-> att]

PlainAtt(id, name) == Attachment(id, "note", name, "", NoBlob, 0, "", "")

\* The events the reducer is exercised with: adds with every id, timestamp
\* and name; removes with every id and timestamp; and events whose op is
\* neither "add" nor "remove", which the switch ignores.
ReduceEvents ==
    {AttachmentEvent("add", ts, PlainAtt(id, n)) : ts \in TSValues, id \in AttIDs, n \in Names}
    \cup {AttachmentEvent("remove", ts, PlainAtt(id, "v1")) : ts \in TSValues, id \in AttIDs}
    \cup {AttachmentEvent("touch", 1, PlainAtt(id, "v1")) : id \in AttIDs}

SeqsUpTo(S, n) == UNION {[1..k -> S] : k \in 0..n}

(***************************************************************************)
(* computeCurrentAttachments                                               *)
(***************************************************************************)
\* Go map assignment and delete on the map `active` (keyed by att_id).
MapPut(m, k, v) == [x \in (DOMAIN m) \cup {k} |-> IF x = k THEN v ELSE m[x]]
MapDelete(m, k) == [x \in (DOMAIN m) \ {k} |-> m[x]]

\* Variants the replay step is compared with: the first add of an id wins;
\* a remove empties the map; a remove is ignored.
ApplyEventKeepFirst(active, event) ==
    CASE event.Op = "add" ->
            IF event.Att.AttID \in DOMAIN active THEN active
            ELSE MapPut(active, event.Att.AttID, event)
      [] event.Op = "remove" -> MapDelete(active, event.Att.AttID)
      [] OTHER -> active

ApplyEventClearOnRemove(active, event) ==
    CASE event.Op = "add" -> MapPut(active, event.Att.AttID, event)
      [] event.Op = "remove" -> <<>>
      [] OTHER -> active

ApplyEventIgnoreRemove(active, event) ==
    CASE event.Op = "add" -> MapPut(active, event.Att.AttID, event)
      [] OTHER -> active

\* The body of the switch on event.Op.
ApplyEvent(active, event) ==
    CASE event.Op = "add" -> MapPut(active, event.Att.AttID, event)
      [] event.Op = "remove" -> MapDelete(active, event.Att.AttID)
      [] OTHER -> active

\* The loop `for _, event := range events`, in slice order.
RECURSIVE ReplayEvents(_, _)
ReplayEvents(events, active) ==
    IF events = <<>> THEN active
    ELSE ReplayEvents(Tail(events), ApplyEvent(active, Head(events)))

\* What sort.Slice guarantees for less(i, j) = result[i].TS < result[j].TS:
\* no element is followed by one that is less.
SortedByTS(r) == \A i \in 1..(Len(r) - 1) : ~(r[i + 1].TS < r[i].TS)

\* Every listing of the map's values, one entry per key.
Listings(active) ==
    LET ids == DOMAIN active
        n == Cardinality(ids)
    IN {[i \in 1..n |-> active[o[i]]] :
            o \in {p \in [1..n -> ids] : \A i, j \in 1..n : p[i] = p[j] => i = j}}

\* Variant: the survivors as collected, without the sort.
computeCurrentAttachmentsUnsorted(events) ==
    Listings(ReplayEvents(events, <<>>))

\* The set of slices a call can return.  The values of `active` are
\* collected by ranging over a Go map (iteration order unspecified) and
\* sorted with sort.Slice (not stable), so entries with equal TS can come
\* back in either order.
computeCurrentAttachments(events) ==
    {r \in Listings(ReplayEvents(events, <<>>)) : SortedByTS(r)}

(***************************************************************************)
(* JSON text, as encoding/json writes and reads it                         *)
(***************************************************************************)
JStr(s) == [t |-> "str", v |-> s]
JNum(n) == [t |-> "num", v |-> n]
JObj(f) == [t |-> "obj", f |-> f]

\* Strings of the model that stand for particular byte strings.
InvalidUTF8 == "<ff>"            \* a string that is not valid UTF-8
ReplacementChar == "<U+FFFD>"    \* the same string with U+FFFD in place of the bad bytes
HugeText == "<1MiB>"             \* a string of at least maxCapacity bytes

\* json.Marshal writes invalid UTF-8 in a string as U+FFFD.
ToValidUTF8(s) == IF s = InvalidUTF8 THEN ReplacementChar ELSE s

EncodeString(s) == JStr(ToValidUTF8(s))

\* A field tagged omitempty is left out when it holds its zero value.
OmitEmpty(key, isZero, j) == IF isZero THEN <<>> ELSE key :> j

MarshalBlobRef(b) ==
    JObj([algo |-> EncodeString(b.Algo), hash |-> EncodeString(b.Hash)])

MarshalAttachment(a) ==
    JObj([att_id |-> EncodeString(a.AttID),
          kind |-> EncodeString(a.Kind),
          name |-> EncodeString(a.Name)]
         @@ OmitEmpty("media_type", a.MediaType = "", EncodeString(a.MediaType))
         @@ OmitEmpty("blob", ~a.Blob.set, MarshalBlobRef(a.Blob))
         @@ OmitEmpty("size", a.Size = 0, JNum(a.Size))
         @@ OmitEmpty("url", a.URL = "", EncodeString(a.URL))
         @@ OmitEmpty("label", a.Label = "", EncodeString(a.Label)))

\* json.Marshal(event)
MarshalEvent(e) ==
    JObj([op |-> EncodeString(e.Op), ts |-> JStr(e.TS), att |-> MarshalAttachment(e.Att)])

\* Decoding one struct field: absent or null leaves the zero value, a value
\* of another JSON type is an UnmarshalTypeError.
FieldOK(f, key, type) == key \notin DOMAIN f \/ f[key].t \in {type, "null"}
FieldSet(f, key) == key \in DOMAIN f /\ f[key].t # "null"
FieldVal(f, key, zero) == IF FieldSet(f, key) THEN f[key].v ELSE zero

BlobRefOK(j) == j.t = "null" \/ (j.t = "obj" /\ FieldOK(j.f, "algo", "str") /\ FieldOK(j.f, "hash", "str"))
UnmarshalBlobRef(j) ==
    IF j.t = "null" THEN NoBlob
    ELSE BlobRef(FieldVal(j.f, "algo", ""), FieldVal(j.f, "hash", ""))

ZeroAttachment == Attachment("", "", "", "", NoBlob, 0, "", "")

AttachmentOK(j) ==
    j.t = "null" \/
    (/\ j.t = "obj"
     /\ \A k \in {"att_id", "kind", "name", "media_type", "url", "label"} : FieldOK(j.f, k, "str")
     /\ FieldOK(j.f, "size", "num")
     /\ "blob" \in DOMAIN j.f => BlobRefOK(j.f["blob"]))

UnmarshalAttachment(j) ==
    IF j.t = "null" THEN ZeroAttachment
    ELSE Attachment(FieldVal(j.f, "att_id", ""), FieldVal(j.f, "kind", ""),
                    FieldVal(j.f, "name", ""), FieldVal(j.f, "media_type", ""),
                    IF "blob" \in DOMAIN j.f THEN UnmarshalBlobRef(j.f["blob"]) ELSE NoBlob,
                    FieldVal(j.f, "size", 0), FieldVal(j.f, "url", ""),
                    FieldVal(j.f, "label", ""))

\* json.Unmarshal(line, &event) returns nil
UnmarshalOK(j) ==
    j.t = "null" \/
    (/\ j.t = "obj"
     /\ FieldOK(j.f, "op", "str")
     /\ FieldOK(j.f, "ts", "str")
     /\ "att" \in DOMAIN j.f => AttachmentOK(j.f["att"]))

\* the event json.Unmarshal leaves in `event` (TS "" has rank 0)
UnmarshalEvent(j) ==
    IF j.t = "null" THEN AttachmentEvent("", 0, ZeroAttachment)
    ELSE AttachmentEvent(FieldVal(j.f, "op", ""), FieldVal(j.f, "ts", 0),
                         IF "att" \in DOMAIN j.f THEN UnmarshalAttachment(j.f["att"])
                         ELSE ZeroAttachment)

(***************************************************************************)
(* The ledger file.  Its bytes are a sequence of newline-terminated lines  *)
(* (`lines`) followed by the bytes after the last newline (`tail`).  A     *)
(* line is a sequence of chunks: a complete JSON text, a proper non-empty  *)
(* prefix of one, a run of white space, or other text.  `huge` marks a     *)
(* chunk of at least maxCapacity bytes.                                    *)
(***************************************************************************)
JsonChunk(j, huge) == [kind |-> "json", val |-> j, huge |-> huge]
PartChunk(j, huge) == [kind |-> "part", val |-> j, huge |-> huge]
SpaceChunk == [kind |-> "space", val |-> JStr(""), huge |-> FALSE]
JunkChunk(huge) == [kind |-> "junk", val |-> JStr(""), huge |-> huge]

NoFile == [exists |-> FALSE, lines |-> <<>>, tail |-> <<>>]

HasHugeString(e) ==
    HugeText \in {e.Op, e.Att.AttID, e.Att.Kind, e.Att.Name, e.Att.MediaType, e.Att.URL, e.Att.Label}

\* the bytes json.Marshal(event) returns
EventBytes(e) == JsonChunk(MarshalEvent(e), HasHugeString(e))

\* strings.TrimSpace
RECURSIVE TrimLeft(_)
TrimLeft(line) ==
    IF line # <<>> /\ Head(line).kind = "space" THEN TrimLeft(Tail(line)) ELSE line
RECURSIVE TrimRight(_)
TrimRight(line) ==
    IF line # <<>> /\ line[Len(line)].kind = "space"
    THEN TrimRight(SubSeq(line, 1, Len(line) - 1)) ELSE line
TrimSpace(line) == TrimRight(TrimLeft(line))

\* json.Unmarshal([]byte(line), &event) == nil: the line is one JSON text
\* that decodes into AttachmentEvent.
LineParses(line) ==
    /\ Len(line) = 1
    /\ line[1].kind = "json"
    /\ UnmarshalOK(line[1].val)

\* The tokens bufio.Scanner yields: every terminated line, then the
\* unterminated rest if it is not empty.
ScannedLines(file) ==
    file.lines \o (IF file.tail = <<>> THEN <<>> ELSE <<file.tail>>)

\* scanner.Err(): a line that does not fit the 1 MiB buffer ends the scan
\* with bufio.ErrTooLong.
TooLong(line) == \E i \in 1..Len(line) : line[i].huge

LoadResult(err, events, malformed) ==
    [err |-> err, Events |-> events, MalformedLine |-> malformed]

\* Variant of the scan loop: the first malformed line ends the read.
RECURSIVE ScanLoopAbortOnMalformed(_, _, _)
ScanLoopAbortOnMalformed(lines, attachments, malformedCount) ==
    IF lines = <<>> THEN LoadResult(FALSE, attachments, malformedCount)
    ELSE IF TooLong(Head(lines)) THEN LoadResult(TRUE, <<>>, 0)
    ELSE LET line == TrimSpace(Head(lines))
         IN IF line = <<>>
            THEN ScanLoopAbortOnMalformed(Tail(lines), attachments, malformedCount)
            ELSE IF ~LineParses(line)
            THEN LoadResult(FALSE, attachments, malformedCount + 1)
            ELSE ScanLoopAbortOnMalformed(Tail(lines),
                     Append(attachments, UnmarshalEvent(line[1].val)), malformedCount)

\* The body of `for scanner.Scan()`, over the lines still to come.
RECURSIVE ScanLoop(_, _, _)
ScanLoop(lines, attachments, malformedCount) ==
    IF lines = <<>> THEN LoadResult(FALSE, attachments, malformedCount)
    ELSE IF TooLong(Head(lines)) THEN LoadResult(TRUE, <<>>, 0)
    ELSE LET line == TrimSpace(Head(lines))
         IN IF line = <<>>
            THEN ScanLoop(Tail(lines), attachments, malformedCount)
            ELSE IF ~LineParses(line)
            THEN ScanLoop(Tail(lines), attachments, malformedCount + 1)
            ELSE ScanLoop(Tail(lines),
                     Append(attachments, UnmarshalEvent(line[1].val)), malformedCount)

\* loadAttachmentsWithMetadata(threadDir); a missing file is an empty result.
loadAttachmentsWithMetadata(file) ==
    IF ~file.exists THEN LoadResult(FALSE, <<>>, 0)
    ELSE ScanLoop(ScannedLines(file), <<>>, 0)

\* appendAttachmentEvent: what the file holds after the call, by how far
\* the call got.  O_APPEND puts every write at the end of the file.
AfterOpen(file) == [file EXCEPT !.exists = TRUE]
\* (variant: a write that replaces the file content, as without O_APPEND)
AfterWriteDataTruncating(file, bytes) == [exists |-> TRUE, lines |-> <<>>, tail |-> <<bytes>>]
AfterWriteData(file, bytes) == [AfterOpen(file) EXCEPT !.tail = Append(file.tail, bytes)]
AfterWriteNewline(file) == [file EXCEPT !.lines = Append(file.lines, file.tail), !.tail = <<>>]

(***************************************************************************)
(* Events and file lines the ledger is exercised with                      *)
(***************************************************************************)
NoteEvent ==
    AttachmentEvent("add", 1,
        Attachment("att1", "note", "v1", "text/markdown",
                   BlobRef("sha256", "h1"), 5, "", ""))
LinkEvent ==
    AttachmentEvent("add", 2, Attachment("att2", "link", "v2", "", NoBlob, 0, "u1", "v2"))
RemoveEvent == AttachmentEvent("remove", 2, PlainAtt("att1", "v1"))
HugeEvent ==
    AttachmentEvent("add", 2, Attachment("att2", "link", HugeText, "", NoBlob, 0, "u1", HugeText))
BadUTF8Event ==
    AttachmentEvent("add", 2, Attachment("att2", "link", InvalidUTF8, "", NoBlob, 0, "u1", InvalidUTF8))

LedgerEvents == {NoteEvent, LinkEvent, RemoveEvent, HugeEvent, BadUTF8Event}

EmptyLine == <<>>
SpacesLine == <<SpaceChunk>>
NoteLine == <<EventBytes(NoteEvent)>>
LinkLine == <<EventBytes(LinkEvent)>>
PaddedRemoveLine == <<SpaceChunk, EventBytes(RemoveEvent), SpaceChunk>>
EmptyObjectLine == <<JsonChunk(JObj(<<>>), FALSE)>>
JunkLine == <<JunkChunk(FALSE)>>
WrongTypeLine == <<JsonChunk(JObj([op |-> JNum(5)]), FALSE)>>
TruncatedLine == <<PartChunk(MarshalEvent(NoteEvent), FALSE)>>
TwoObjectsLine == <<EventBytes(NoteEvent), EventBytes(LinkEvent)>>
HugeJunkLine == <<JunkChunk(TRUE)>>
HugeEventLine == <<EventBytes(HugeEvent)>>

LoadLines ==
    {EmptyLine, SpacesLine, NoteLine, LinkLine, PaddedRemoveLine, EmptyObjectLine,
     JunkLine, WrongTypeLine, TruncatedLine, TwoObjectsLine, HugeJunkLine, HugeEventLine}

LoadTails == {<<>>, LinkLine, TruncatedLine}

LedgerIdle ==
    /\ ledger = NoFile
    /\ ldResult = LoadResult(FALSE, <<>>, 0)
    /\ ldValid = FALSE
    /\ ldPrev = NoFile
    /\ appended = <<>>
    /\ failures = 0

CcIdle ==
    /\ ccEvents = <<>>
    /\ ccResult = <<>>
    /\ ccRerun = <<>>
    /\ ccDone = FALSE

(***************************************************************************)
(* The record store (internal/store) and the record type (internal/task).  *)
(* `tasks` maps the durable ID of every record file to the Task the file   *)
(* holds; timestamps are whole seconds, as the files store them (RFC3339). *)
(* A durable ID is the pair <<creation time, random part>>, ordered as the *)
(* encoded strings are.  ShortID is <<>> for nil and <<n>> for a pointer   *)
(* to n.                                                                   *)
(***************************************************************************)
StatusOpen == "open"
StatusDone == "done"
StatusArchived == "archived"

NoShortID == <<>>
SID(n) == <<n>>

Titles == {"t1", "t2"}
RndValues == 1..2
Procs == {"p1", "p2"}

\* A record file holds the fields of a Task and may hold two more that the
\* Task struct does not have: attachments_log, and a field unknown to the
\* program.  NoField is a field that is not in the file.
NoField == ""
AttachmentsLogName == "attachments.jsonl"

Task(id, title, status, createdAt, updatedAt, shortID) ==
    [ID |-> id, Title |-> title, Status |-> status,
     CreatedAt |-> createdAt, UpdatedAt |-> updatedAt, ShortID |-> shortID,
     AttachmentsLog |-> NoField, Extra |-> NoField]

NoTask == Task(<<0, 0>>, "", "", 0, 0, NoShortID)

\* task.GenerateID: the timestamp followed by the random bytes
GenerateID(now, rnd) == <<now, rnd>>

\* string order of two durable IDs
IDLess(a, b) == a[1] < b[1] \/ (a[1] = b[1] /\ a[2] < b[2])

\* Task.Normalize, for the fields modelled
Normalize(t) == IF t.Status = "" THEN [t EXCEPT !.Status = StatusOpen] ELSE t

\* Task.UnmarshalJSON: the keys of the file that taskJSON does not have are
\* not read
Decode(file) == [file EXCEPT !.AttachmentsLog = NoField, !.Extra = NoField]

loadTask(st, id) == Normalize(Decode(st[id]))

\* the less function LoadAll sorts with
Before(x, y) ==
    IF x.CreatedAt # y.CreatedAt THEN x.CreatedAt < y.CreatedAt ELSE IDLess(x.ID, y.ID)

\* FileStore.LoadAll: every record, by (CreatedAt, ID)
SortTasks(loaded) ==
    [i \in 1..Cardinality(loaded) |->
        CHOOSE t \in loaded : Cardinality({u \in loaded : Before(u, t)}) + 1 = i]

LoadAll(st) == SortTasks({loadTask(st, id) : id \in DOMAIN st})

\* Variant of Save: an alias already held by another open record is
\* replaced by a fresh one before the write.
SaveReallocating(st, t) ==
    LET others == {st[id].ShortID[1] : id \in {i \in DOMAIN st \ {t.ID} :
                       st[i].Status = StatusOpen /\ st[i].ShortID # NoShortID}}
        max == IF others = {} THEN 0 ELSE CHOOSE n \in others : \A m \in others : m <= n
        t2 == IF t.Status = StatusOpen /\ t.ShortID # NoShortID /\ t.ShortID[1] \in others
              THEN [t EXCEPT !.ShortID = SID(max + 1)] ELSE t
    IN [id \in DOMAIN st \cup {t.ID} |-> IF id = t.ID THEN t2 ELSE st[id]]

\* variant: the record is written under the next durable ID
SaveUnderNextID(st, t) ==
    [id \in DOMAIN st \cup {<<t.ID[1], t.ID[2] + 1>>} |->
        IF id = <<t.ID[1], t.ID[2] + 1>> THEN [t EXCEPT !.ID = id] ELSE st[id]]

\* FileStore.Save: the file of t.ID now holds t, other files are untouched
Save(st, t) == [id \in DOMAIN st \cup {t.ID} |-> IF id = t.ID THEN t ELSE st[id]]

\* Variant of GenerateNextShortID: one more than the number of open records.
GenerateNextShortIDCountingOpen(st) ==
    Cardinality({id \in DOMAIN st : st[id].Status = StatusOpen}) + 1

\* the loop of GenerateNextShortID: the largest alias above 0, else 0
MaxSID(all) ==
    LET sids == {all[i].ShortID[1] :
                     i \in {j \in 1..Len(all) : all[j].ShortID # NoShortID}} \cup {0}
    IN CHOOSE n \in sids : \A k \in sids : k <= n

NextSID(maxSID) == IF maxSID = 0 THEN 1 ELSE maxSID + 1

\* variant: the maximum is taken over the open records only
OpenOf(all) == SelectSeq(all, LAMBDA t : t.Status = StatusOpen)
GenerateNextShortIDOverOpen(st) == NextSID(MaxSID(OpenOf(LoadAll(st))))

\* FileStore.GenerateNextShortID
GenerateNextShortID(st) == NextSID(MaxSID(LoadAll(st)))

\* Results of store calls that may write: the store afterwards and the
\* in-memory record.
StoreResult(err, st, t) == [err |-> err, st |-> st, t |-> t, msg |-> ""]

\* The texts of the errors the lookups return, and a failed call: a nil
\* record, the error, nothing written.
\* GetByID hands on the wrapped error of loadTask: os.IsNotExist does not
\* unwrap it, so the "task %s not found" text is never produced.
ErrReadTaskFile == "failed to read task file %s"
ErrMultiple == "short_id %d refers to multiple tasks"
ErrNoActive == "no active task with short_id %d"
ErrNotValid == "'%s' is not a valid task ID or short_id"
StoreError(msg, st) == [err |-> TRUE, st |-> st, t |-> NoTask, msg |-> msg]

\* `return s.Save(t)`
SaveResult(st, t) == StoreResult(FALSE, Save(st, t), t)

\* `return s.Save(t)` when the tasks directory may not be writable:
\* os.WriteFile of the temporary file fails, the record file stays as it
\* was, and the caller's record keeps what was assigned to it in memory.
ErrWrite == "failed to write task file"
SaveFailed(st, t) == [err |-> TRUE, st |-> st, t |-> t, msg |-> ErrWrite]
SaveOn(st, t, writable) == IF writable THEN SaveResult(st, t) ELSE SaveFailed(st, t)

\* variant: an alias is assigned whatever the status of the record
EnsureShortIDAnyStatus(st, t, writable) ==
    IF t.ShortID # NoShortID THEN StoreResult(FALSE, st, t)
    ELSE SaveOn(st, [t EXCEPT !.ShortID = SID(GenerateNextShortID(st))], writable)

\* FileStore.EnsureShortID
EnsureShortIDOn(st, t, writable) ==
    IF t.Status # StatusOpen THEN StoreResult(FALSE, st, t)
    ELSE IF t.ShortID # NoShortID THEN StoreResult(FALSE, st, t)
    ELSE SaveOn(st, [t EXCEPT !.ShortID = SID(GenerateNextShortID(st))], writable)

\* FileStore.EnsureShortID on a writable tasks directory
EnsureShortID(st, t) == EnsureShortIDOn(st, t, TRUE)

\* `if err := s.EnsureShortID(t); err != nil { }`: the error is dropped
Logged(r) == [r EXCEPT !.err = FALSE, !.msg = ""]

\* Command-line tokens naming a record: text that is not a decimal number
\* (the durable ID of a record, or, as MissingID, of none), or a decimal
\* number.
IdTok(id) == [kind |-> "id", id |-> id, n |-> 0]
NumTok(n) == [kind |-> "num", id |-> <<0, 0>>, n |-> n]
MissingID == <<0, 0>>

\* FileStore.GetByID
GetByIDOn(st, tok, writable) ==
    IF tok.kind = "id" /\ tok.id \in DOMAIN st
    THEN Logged(EnsureShortIDOn(st, loadTask(st, tok.id), writable))
    ELSE StoreError(ErrReadTaskFile, st)

\* FileStore.GetByID on a writable tasks directory
GetByID(st, tok) == GetByIDOn(st, tok, TRUE)

\* variant: the alias is looked up among all records, open or not
FindByShortIDAnyStatus(st, all, shortID) ==
    LET hits == {i \in 1..Len(all) : /\ all[i].ShortID # NoShortID
                                      /\ all[i].ShortID[1] = shortID}
    IN IF Cardinality(hits) > 1 THEN StoreError(ErrMultiple, st)
       ELSE IF hits = {} THEN StoreError(ErrNoActive, st)
       ELSE StoreResult(FALSE, st, all[CHOOSE i \in hits : TRUE])

\* variant: the first open record carrying the alias is returned
FindByShortIDFirstHit(st, all, shortID) ==
    LET hits == {i \in 1..Len(all) : /\ all[i].Status = StatusOpen
                                      /\ all[i].ShortID # NoShortID
                                      /\ all[i].ShortID[1] = shortID}
    IN IF hits = {} THEN StoreError(ErrNoActive, st)
       ELSE StoreResult(FALSE, st, all[CHOOSE i \in hits : \A j \in hits : i <= j])

\* FileStore.GetByShortID
FindByShortID(st, all, shortID) ==
    LET hits == {i \in 1..Len(all) : /\ all[i].Status = StatusOpen
                                      /\ all[i].ShortID # NoShortID
                                      /\ all[i].ShortID[1] = shortID}
    IN IF Cardinality(hits) > 1 THEN StoreError(ErrMultiple, st)
       ELSE IF hits = {} THEN StoreError(ErrNoActive, st)
       ELSE StoreResult(FALSE, st, all[CHOOSE i \in hits : TRUE])

GetByShortID(st, shortID) == FindByShortID(st, LoadAll(st), shortID)

\* FileStore.ResolveID
\* the rest of ResolveID once GetByShortID has returned
ResolveFound(st, bySID, writable) ==
    IF bySID.err THEN bySID ELSE Logged(EnsureShortIDOn(st, bySID.t, writable))

\* the rest of ResolveID once GetByID has returned
ResolveAfterGetByID(st, tok, byID, writable) ==
    IF ~byID.err THEN byID
    ELSE IF tok.kind # "num" THEN StoreError(ErrNotValid, st)
    ELSE ResolveFound(st, GetByShortID(st, tok.n), writable)

ResolveIDOn(st, tok, writable) ==
    ResolveAfterGetByID(st, tok, GetByIDOn(st, tok, writable), writable)

\* FileStore.ResolveID on a writable tasks directory
ResolveID(st, tok) == ResolveIDOn(st, tok, TRUE)

(***************************************************************************)
(* The commands, as functions from the store before to the store after.   *)
(* `now` is the command's time.Now().                                      *)
(***************************************************************************)
\* done.go, update.go: resolve every id, stop at the first error
RECURSIVE ResolveUntilError(_, _, _)
ResolveUntilErrorStep(r, ids, resolved) ==
    IF r.err THEN [err |-> TRUE, st |-> r.st, tasks |-> resolved]
    ELSE ResolveUntilError(r.st, Tail(ids), Append(resolved, r.t))

ResolveUntilError(st, ids, resolved) ==
    IF ids = <<>> THEN [err |-> FALSE, st |-> st, tasks |-> resolved]
    ELSE ResolveUntilErrorStep(ResolveID(st, Head(ids)), ids, resolved)

\* archive.go: resolve every id, skip the ones that fail
RECURSIVE ResolveSkippingErrors(_, _, _)
ResolveSkippingErrorsStep(r, ids, resolved) ==
    IF r.err THEN ResolveSkippingErrors(r.st, Tail(ids), resolved)
    ELSE ResolveSkippingErrors(r.st, Tail(ids), Append(resolved, r.t))

ResolveSkippingErrors(st, ids, resolved) ==
    IF ids = <<>> THEN [err |-> FALSE, st |-> st, tasks |-> resolved]
    ELSE ResolveSkippingErrorsStep(ResolveID(st, Head(ids)), ids, resolved)

\* reopen.go: GetByID for every id, remember whether any was missing
RECURSIVE GetEachByID(_, _, _, _)
GetEachByIDStep(r, ids, found, missing) ==
    IF r.err THEN GetEachByID(r.st, Tail(ids), found, TRUE)
    ELSE GetEachByID(r.st, Tail(ids), Append(found, r.t), missing)

GetEachByID(st, ids, found, missing) ==
    IF ids = <<>> THEN [err |-> missing, st |-> st, tasks |-> found]
    ELSE GetEachByIDStep(GetByID(st, Head(ids)), ids, found, missing)

\* variant: done records keep their alias
RECURSIVE MarkDoneKeepingAlias(_, _, _)
MarkDoneKeepingAlias(st, ts, now) ==
    IF ts = <<>> THEN st
    ELSE MarkDoneKeepingAlias(Save(st, [Head(ts) EXCEPT !.Status = StatusDone,
                                                         !.UpdatedAt = now]),
                              Tail(ts), now)

RECURSIVE MarkDone(_, _, _)
MarkDone(st, ts, now) ==
    IF ts = <<>> THEN st
    ELSE MarkDone(Save(st, [Head(ts) EXCEPT !.Status = StatusDone,
                                             !.UpdatedAt = now,
                                             !.ShortID = NoShortID]),
                  Tail(ts), now)

RECURSIVE MarkArchived(_, _, _)
MarkArchived(st, ts, now) ==
    IF ts = <<>> THEN st
    ELSE IF Head(ts).Status = StatusArchived THEN MarkArchived(st, Tail(ts), now)
    ELSE MarkArchived(Save(st, [Head(ts) EXCEPT !.Status = StatusArchived,
                                                 !.UpdatedAt = now,
                                                 !.ShortID = NoShortID]),
                      Tail(ts), now)

\* reopen.go: st.Save(t) after st.EnsureShortID(t)
SaveEnsured(r) == Save(r.st, r.t)

RECURSIVE MarkOpen(_, _, _)
MarkOpen(st, ts, now) ==
    IF ts = <<>> THEN st
    ELSE IF Head(ts).Status = StatusOpen THEN MarkOpen(st, Tail(ts), now)
    ELSE MarkOpen(SaveEnsured(EnsureShortID(st, [Head(ts) EXCEPT !.Status = StatusOpen,
                                                                 !.UpdatedAt = now])),
                  Tail(ts), now)

RECURSIVE ApplyTitle(_, _, _, _)
ApplyTitle(st, ts, title, now) ==
    IF ts = <<>> THEN st
    ELSE IF title # "" /\ title # Head(ts).Title
    THEN ApplyTitle(Save(st, [Head(ts) EXCEPT !.Title = title, !.UpdatedAt = now]),
                    Tail(ts), title, now)
    ELSE ApplyTitle(st, Tail(ts), title, now)

RECURSIVE EnsureEachOpen(_, _)
EnsureEachOpen(st, ts) ==
    IF ts = <<>> THEN st
    ELSE IF Head(ts).Status = StatusOpen
    THEN EnsureEachOpen(EnsureShortID(st, Head(ts)).st, Tail(ts))
    ELSE EnsureEachOpen(st, Tail(ts))

RECURSIVE SaveEach(_, _)
SaveEach(st, ts) == IF ts = <<>> THEN st ELSE SaveEach(Save(st, Head(ts)), Tail(ts))

\* part_003 RunAdd
Add(st, id, title, now) ==
    Save(st, Task(id, title, StatusOpen, now, now, SID(GenerateNextShortID(st))))

\* part_002 RunList, up to the reload
List(st) == EnsureEachOpen(st, LoadAll(st))

\* show.go RunShow, up to the lookup
Show(st, tok) == ResolveID(st, tok).st

\* update.go RunUpdate (of the fields, the title)
UpdateResolved(r, title, now) ==
    IF r.err THEN r.st ELSE ApplyTitle(r.st, r.tasks, title, now)

Update(st, ids, title, now) == UpdateResolved(ResolveUntilError(st, ids, <<>>), title, now)

\* done.go RunDone
DoneResolved(r, now) == IF r.err THEN r.st ELSE MarkDone(r.st, r.tasks, now)

Done(st, ids, now) == DoneResolved(ResolveUntilError(st, ids, <<>>), now)

\* archive.go RunArchive
ArchiveResolved(r, now) == MarkArchived(r.st, r.tasks, now)

Archive(st, ids, now) == ArchiveResolved(ResolveSkippingErrors(st, ids, <<>>), now)

\* reopen.go RunReopen
ReopenFound(r, now) == IF r.err THEN r.st ELSE MarkOpen(r.st, r.tasks, now)

Reopen(st, ids, now) == ReopenFound(GetEachByID(st, ids, <<>>, FALSE), now)

\* variant: records that are not open keep their alias
RenumberOpenOnly(all) ==
    [i \in 1..Len(all) |->
        IF all[i].Status = StatusOpen
        THEN [all[i] EXCEPT !.ShortID =
                 SID(Cardinality({j \in 1..i : all[j].Status = StatusOpen}))]
        ELSE all[i]]

\* variant: numbering goes on after the largest alias in use
RenumberFromMax(all) ==
    [i \in 1..Len(all) |->
        IF all[i].Status = StatusOpen
        THEN [all[i] EXCEPT !.ShortID =
                 SID(MaxSID(all)
                     + Cardinality({j \in 1..i : all[j].Status = StatusOpen}))]
        ELSE [all[i] EXCEPT !.ShortID = NoShortID]]

\* reindex.go RunReindex
Renumber(all) ==
    [i \in 1..Len(all) |->
        IF all[i].Status = StatusOpen
        THEN [all[i] EXCEPT !.ShortID =
                 SID(Cardinality({j \in 1..i : all[j].Status = StatusOpen}))]
        ELSE [all[i] EXCEPT !.ShortID = NoShortID]]

ReindexLoaded(st, all) == IF Len(all) = 0 THEN st ELSE SaveEach(st, Renumber(all))

Reindex(st) == ReindexLoaded(st, LoadAll(st))

\* describe.go RunDescribe with a non-empty edited text: the description is
\* outside the fields modelled, the update timestamp is set and the record saved
DescribeResolved(r, now) ==
    IF r.err THEN r.st ELSE Save(r.st, [r.t EXCEPT !.UpdatedAt = now])

Describe(st, tok, now) == DescribeResolved(ResolveID(st, tok), now)

\* json.Unmarshal into map[string]interface{} holds every number as a
\* float64, and json.MarshalIndent writes the float64 back: an integer above
\* 2^53 comes back as the nearest float64.  Values are the JSON text.
JSONString == "\"x\""
JSONBigInt == "9007199254740993"
AsFloat64(v) == IF v = "9007199254740993" THEN "9007199254740992" ELSE v

\* open.go updateThreadAttachmentsLog: threadData after the two assignments
UpdatedThreadData(file, now) ==
    [file EXCEPT !.AttachmentsLog = AttachmentsLogName,
                 !.UpdatedAt = now,
                 !.Extra = AsFloat64(@)]

ErrWriteThread == "failed to write thread.json"

\* open.go updateThreadAttachmentsLog, from os.ReadFile(threadPath) on:
\* thread.json.tmp is written and renamed over thread.json
WriteThreadData(st, id, now, writable) ==
    IF writable
    THEN StoreResult(FALSE, Save(st, UpdatedThreadData(st[id], now)),
                     UpdatedThreadData(st[id], now))
    ELSE StoreError(ErrWriteThread, st)

updateThreadAttachmentsLogLoaded(byID, id, now, writable) ==
    IF byID.err THEN byID ELSE WriteThreadData(byID.st, id, now, writable)

\* open.go updateThreadAttachmentsLog: st.GetByID(threadID) first (loadWritable:
\* whether the save inside GetByID can write), then the raw rewrite
updateThreadAttachmentsLog(st, id, now, loadWritable, writable) ==
    updateThreadAttachmentsLogLoaded(GetByIDOn(st, IdTok(id), loadWritable),
                                     id, now, writable)

StoreIdle ==
    /\ tasks = <<>>
    /\ clock = 1
    /\ pc = [p \in Procs |-> "idle"]
    /\ local = [p \in Procs |-> NoTask]

\* One FileStore call (or one run of reindex): what was called, with which
\* token or record, on which store, what it returned (res for the calls
\* returning a record, n for GenerateNextShortID), how many runs in a row
\* this is, the store before the first of them, and whether the tasks
\* directory could be written.
Call(op, tok, arg, before, res, n, runs, orig, writable) ==
    [op |-> op, tok |-> tok, arg |-> arg, before |-> before, res |-> res,
     n |-> n, runs |-> runs, orig |-> orig, writable |-> writable]
NoCall ==
    Call("none", IdTok(MissingID), NoTask, <<>>,
         StoreResult(FALSE, <<>>, NoTask), 0, 0, <<>>, TRUE)

\* No FileStore call, no GenerateID call and no storeBlob call made yet.
CallIdle == stCall = NoCall
IdGenIdle == idGen = <<>>
BlobIdle == blobs = <<>> /\ blobLog = <<>>
\* no blobPath call made yet
NoPathCall == [called |-> FALSE, blob |-> [Algo |-> <<>>, Hash |-> <<>>], path |-> <<>>]
PathIdle == pathCall = NoPathCall
LoggedIdle == logged = {}
\* no RunReopen call made yet
NoReopen == [called |-> FALSE, ids |-> <<>>, before |-> <<>>, code |-> 0]
ReopenIdle == reopenCall = NoReopen
\* the record directory is not looked at write by write
DiskIdle == disk = <<>>
ExtIdle == PathIdle /\ LoggedIdle /\ ReopenIdle /\ DiskIdle
AuxIdle == CallIdle /\ IdGenIdle /\ BlobIdle /\ ExtIdle

(***************************************************************************)
(* SpecStore: one FileStore call, or reindex run once or twice in a row,   *)
(* on a bounded set of stored record sets: any status, any alias or none   *)
(* on any record, so duplicate, missing and gapped aliases and aliases on  *)
(* records that are not open.  ResolveID and EnsureShortID are called with *)
(* the tasks directory writable or not (the Save inside them fails).       *)
(***************************************************************************)
MaxStored == 2
MaxAlias == 3

StoredIDs == {GenerateID(1, r) : r \in 1..MaxStored}
StoredStatuses == {"", StatusOpen, StatusDone, StatusArchived}
StoredAliases == {NoShortID} \cup {SID(n) : n \in 1..MaxAlias}
StoredTimes == 1..2

StoredTasks(id) ==
    {Task(id, "t1", s, c, c, a) :
        s \in StoredStatuses, c \in StoredTimes, a \in StoredAliases}

Stores ==
    UNION {{st \in [D -> UNION {StoredTasks(id) : id \in D}] :
               \A id \in D : st[id].ID = id} : D \in SUBSET StoredIDs}

InitStore ==
    /\ CcIdle
    /\ LedgerIdle
    /\ AuxIdle
    /\ tasks \in Stores
    /\ clock = 1
    /\ pc = [p \in Procs |-> "idle"]
    /\ local = [p \in Procs |-> NoTask]

\* what ResolveID is called with: a durable ID of the pool, text that is
\* neither a stored ID nor a number, or a number
StoreTokens ==
    {IdTok(id) : id \in StoredIDs \cup {MissingID}}
        \cup {NumTok(n) : n \in 1..MaxAlias}

\* what EnsureShortID is called with: a record as loaded, or one a command
\* has set to open in memory (reopen.go)
EnsureArgs(st) ==
    {loadTask(st, id) : id \in DOMAIN st}
        \cup {[loadTask(st, id) EXCEPT !.Status = StatusOpen] : id \in DOMAIN st}

StoreFrame ==
    /\ UNCHANGED <<clock, pc, local, idGen, blobs, blobLog, extVars>>
    /\ UNCHANGED <<ccVars, ldVars>>

Returned(st, tok, res, writable) ==
    /\ stCall' = Call("ResolveID", tok, NoTask, st, res, 0, 1, st, writable)
    /\ tasks' = res.st

CallResolveID(tok, writable) ==
    /\ stCall = NoCall
    /\ Returned(tasks, tok, ResolveIDOn(tasks, tok, writable), writable)
    /\ StoreFrame

CallGenerateNextShortID ==
    /\ stCall = NoCall
    /\ stCall' = Call("GenerateNextShortID", IdTok(MissingID), NoTask, tasks,
                      StoreResult(FALSE, tasks, NoTask),
                      GenerateNextShortID(tasks), 1, tasks, TRUE)
    /\ UNCHANGED tasks
    /\ StoreFrame

Ensured(st, t, res, writable) ==
    /\ stCall' = Call("EnsureShortID", IdTok(MissingID), t, st, res, 0, 1, st, writable)
    /\ tasks' = res.st

CallEnsureShortID(t, writable) ==
    /\ stCall = NoCall
    /\ Ensured(tasks, t, EnsureShortIDOn(tasks, t, writable), writable)
    /\ StoreFrame

Reindexed(st, after, runs, orig) ==
    /\ stCall' = Call("Reindex", IdTok(MissingID), NoTask, st,
                      StoreResult(FALSE, after, NoTask), 0, runs, orig, TRUE)
    /\ tasks' = after

CallReindex ==
    /\ stCall.op \in {"none", "Reindex"}
    /\ stCall.runs < 2
    /\ Reindexed(tasks, Reindex(tasks), stCall.runs + 1,
                 IF stCall.runs = 0 THEN tasks ELSE stCall.orig)
    /\ StoreFrame

NextStore ==
    \/ \E tok \in StoreTokens, writable \in BOOLEAN : CallResolveID(tok, writable)
    \/ CallGenerateNextShortID
    \/ \E t \in EnsureArgs(tasks), writable \in BOOLEAN : CallEnsureShortID(t, writable)
    \/ CallReindex

SpecStore == InitStore /\ [][NextStore]_vars

(***************************************************************************)
(* SpecID: GenerateID called up to MaxGenerated times in a row, the clock  *)
(* reading one of MaxMillis + 1 consecutive milliseconds and never going   *)
(* back.  A millisecond count t is the pair <<t \div 2^24, t % 2^24>>.     *)
(***************************************************************************)
MaxGenerated == 2
MaxMillis == 5

RndLen == 10

\* 2026-11-04T09:59:40.493Z
ClockStart == <<106918, 205>>

Millis == {<<ClockStart[1], ClockStart[2] + d>> : d \in 0..MaxMillis}

MillisLess(a, b) == a[1] < b[1] \/ (a[1] = b[1] /\ a[2] < b[2])

\* what rand.Read fills rndBytes with
RndBlocks ==
    {[i \in 1..RndLen |-> 0], [i \in 1..RndLen |-> 255],
     [i \in 1..RndLen |-> 17 * i]}

\* tsBytes: the low 48 bits of the millisecond count, most significant
\* byte first
TsBytes(t) ==
    <<(t[1] \div 65536) % 256, (t[1] \div 256) % 256, t[1] % 256,
      (t[2] \div 65536) % 256, (t[2] \div 256) % 256, t[2] % 256>>

\* base32.StdEncoding without padding: the bits of the input in groups of
\* five, the last group filled with zero bits, each group the index of a
\* character of "ABCDEFGHIJKLMNOPQRSTUVWXYZ234567".  A string is the
\* sequence of its bytes.
BitAt(raw, k) ==
    IF (k \div 8) < Len(raw) THEN (raw[(k \div 8) + 1] \div (2 ^ (7 - (k % 8)))) % 2 ELSE 0

GroupAt(raw, g) ==
    16 * BitAt(raw, 5 * g) + 8 * BitAt(raw, 5 * g + 1) + 4 * BitAt(raw, 5 * g + 2)
        + 2 * BitAt(raw, 5 * g + 3) + BitAt(raw, 5 * g + 4)

EncodeStd(v) == IF v < 26 THEN 65 + v ELSE 50 + (v - 26)

EncodedLen(n) == (8 * n + 4) \div 5

EncodeToString(raw) ==
    [g \in 1..EncodedLen(Len(raw)) |-> EncodeStd(GroupAt(raw, g - 1))]

\* id.go GenerateID, down to the characters of the ID
GenerateIDString(t, rnd) == EncodeToString(TsBytes(t) \o rnd)

\* Go's < on strings: byte-wise
RECURSIVE StringLess(_, _)
StringLess(a, b) ==
    IF b = <<>> THEN FALSE
    ELSE IF a = <<>> THEN TRUE
    ELSE IF Head(a) # Head(b) THEN Head(a) < Head(b)
    ELSE StringLess(Tail(a), Tail(b))

Generated(t, rnd) == [ts |-> t, rnd |-> rnd, id |-> GenerateIDString(t, rnd)]

InitID ==
    /\ CcIdle
    /\ LedgerIdle
    /\ StoreIdle
    /\ CallIdle
    /\ BlobIdle
    /\ ExtIdle
    /\ idGen = <<>>

CallGenerateID(t, rnd) ==
    /\ Len(idGen) < MaxGenerated
    /\ idGen # <<>> => ~MillisLess(t, idGen[Len(idGen)].ts)
    /\ idGen' = Append(idGen, Generated(t, rnd))
    /\ UNCHANGED <<stCall, blobs, blobLog, extVars>>
    /\ UNCHANGED <<ccVars, ldVars, stVars>>

NextID == \E t \in Millis, rnd \in RndBlocks : CallGenerateID(t, rnd)

SpecID == InitID /\ [][NextID]_vars

(***************************************************************************)
(* SpecBlob: storeBlob called up to MaxStoreCalls times on one thread      *)
(* directory that starts without blobs.  A write of a new blob succeeds,   *)
(* fails before the file is created, or fails after part of the content    *)
(* has been written.                                                       *)
(***************************************************************************)
MaxStoreCalls == 3

\* the content handed to storeBlob, as byte sequences
Payloads == {<<>>, <<1>>, <<1, 2>>, <<2, 1>>}

\* Strings that become parts of paths are sequences of characters; a path
\* is the sequence of its elements.
HexDigits == <<"0", "1", "2", "3", "4", "5", "6", "7",
               "8", "9", "a", "b", "c", "d", "e", "f">>
Sha256HexLen == 64

DirBlobs == <<"b", "l", "o", "b", "s">>
DirSha256 == <<"s", "h", "a", "2", "5", "6">>
Dot == <<".">>
DotDot == <<".", ".">>

\* the thread directory the calls are given
ThreadDir == <<<<"w", "s">>, <<"t", "h", "r", "e", "a", "d", "s">>,
               <<"A", "G">>, <<"A", "G", "Q", "2">>>>

\* filepath.Join on elements without separators: the elements in order,
\* then Clean: "." dropped, ".." dropping the element before it
RECURSIVE Clean(_, _)
Clean(done, rest) ==
    IF rest = <<>> THEN done
    ELSE IF Head(rest) = Dot \/ Head(rest) = <<>> THEN Clean(done, Tail(rest))
    ELSE IF Head(rest) = DotDot /\ done # <<>> /\ done[Len(done)] # DotDot
    THEN Clean(SubSeq(done, 1, Len(done) - 1), Tail(rest))
    ELSE Clean(Append(done, Head(rest)), Tail(rest))

Join(elems) == Clean(<<>>, elems)

\* sha256.Sum256 and hex.EncodeToString: 64 hex digits that differ for
\* different content of the payload set (no collision among them)
RECURSIVE Digest(_)
Digest(content) ==
    IF content = <<>> THEN 1
    ELSE 3 * Digest(SubSeq(content, 1, Len(content) - 1)) + content[Len(content)]

Sum256(content) ==
    [i \in 1..Sha256HexLen |-> HexDigits[((Digest(content) \div (16 ^ ((i - 1) % 4))) % 16) + 1]]

\* open.go storeBlob: first2, next2 and blobPath
StoreBlobPath(threadDir, hashHex) ==
    Join(threadDir \o <<DirBlobs, DirSha256, SubSeq(hashHex, 1, 2),
                        SubSeq(hashHex, 3, 4), hashHex>>)

\* how os.MkdirAll and os.WriteFile end: the file is not created; it is
\* created and n bytes reach it before the error; all bytes reach it
WriteOutcomes(content) ==
    {[created |-> FALSE, n |-> 0, ok |-> FALSE]}
        \cup {[created |-> TRUE, n |-> k, ok |-> FALSE] : k \in 0..(Len(content) - 1)}
        \cup {[created |-> TRUE, n |-> Len(content), ok |-> TRUE]}

BlobResult(hashHex, size, err, fs) == [hash |-> hashHex, size |-> size, err |-> err, fs |-> fs]

\* `return "", 0, fmt.Errorf(...)`
BlobError(fs) == BlobResult(<<>>, 0, TRUE, fs)

WriteBlob(fs, path, bytes) ==
    [f \in DOMAIN fs \cup {path} |-> IF f = path THEN bytes ELSE fs[f]]

\* variant: an existing blob file is written again
storeBlobRewriting(fs, content, hashHex, blobPath, w) ==
    IF ~w.created THEN BlobError(fs)
    ELSE IF ~w.ok THEN BlobError(WriteBlob(fs, blobPath, SubSeq(content, 1, w.n)))
    ELSE BlobResult(hashHex, Len(content), FALSE, WriteBlob(fs, blobPath, content))

\* variant: the content is appended to an existing blob file
storeBlobAppending(fs, content, hashHex, blobPath, w) ==
    IF blobPath \in DOMAIN fs
    THEN BlobResult(hashHex, Len(fs[blobPath]) + Len(content), FALSE,
                    WriteBlob(fs, blobPath, fs[blobPath] \o content))
    ELSE IF ~w.created THEN BlobError(fs)
    ELSE IF ~w.ok THEN BlobError(WriteBlob(fs, blobPath, SubSeq(content, 1, w.n)))
    ELSE BlobResult(hashHex, Len(content), FALSE, WriteBlob(fs, blobPath, content))

\* open.go storeBlob, once the hash and the path are computed; the files
\* below the thread directory are a function from path to bytes
storeBlobAt(fs, content, hashHex, blobPath, w) ==
    IF blobPath \in DOMAIN fs THEN BlobResult(hashHex, Len(fs[blobPath]), FALSE, fs)
    ELSE IF ~w.created THEN BlobError(fs)
    ELSE IF ~w.ok THEN BlobError(WriteBlob(fs, blobPath, SubSeq(content, 1, w.n)))
    ELSE BlobResult(hashHex, Len(content), FALSE, WriteBlob(fs, blobPath, content))

storeBlobHashed(fs, threadDir, content, hashHex, w) ==
    storeBlobAt(fs, content, hashHex, StoreBlobPath(threadDir, hashHex), w)

storeBlob(fs, threadDir, content, w) ==
    storeBlobHashed(fs, threadDir, content, Sum256(content), w)

InitBlob ==
    /\ CcIdle
    /\ LedgerIdle
    /\ StoreIdle
    /\ CallIdle
    /\ IdGenIdle
    /\ ExtIdle
    /\ blobs = <<>>
    /\ blobLog = <<>>

StoredBlob(fs, content, r) ==
    /\ blobLog' = Append(blobLog, [content |-> content, before |-> fs,
                                   after |-> r.fs, hash |-> r.hash,
                                   size |-> r.size, err |-> r.err])
    /\ blobs' = r.fs

CallStoreBlob(content, w) ==
    /\ Len(blobLog) < MaxStoreCalls
    /\ StoredBlob(blobs, content, storeBlob(blobs, ThreadDir, content, w))
    /\ UNCHANGED <<stCall, idGen, extVars>>
    /\ UNCHANGED <<ccVars, ldVars, stVars>>

NextBlob ==
    \E content \in Payloads : \E w \in WriteOutcomes(content) : CallStoreBlob(content, w)

SpecBlob == InitBlob /\ [][NextBlob]_vars

(***************************************************************************)
(* SpecPath: blobPath called on a bounded set of blob references: the      *)
(* digests storeBlob produces, and hashes of up to MaxHashLen characters   *)
(* under several algorithm names.                                          *)
(***************************************************************************)
MaxHashLen == 5

HashChars == {"a", "b", "."}

AlgoNames == {DirSha256, <<"S", "H", "A", "2", "5", "6">>, <<"m", "d", "5">>, <<>>}

BlobHashes ==
    UNION {[1..n -> HashChars] : n \in 0..MaxHashLen}
        \cup {Sum256(content) : content \in Payloads}

BlobRefs == {[Algo |-> a, Hash |-> h] : a \in AlgoNames, h \in BlobHashes}

\* variant: the algorithm of the reference is not looked at
blobPathAnyAlgo(threadDir, blob) ==
    IF Len(blob.Hash) < 4 THEN <<>>
    ELSE Join(threadDir \o <<DirBlobs, DirSha256, SubSeq(blob.Hash, 1, 2),
                             SubSeq(blob.Hash, 3, 4), blob.Hash>>)

\* part_005 blobPath; the empty path is ""
blobPath(threadDir, blob) ==
    IF blob.Algo # DirSha256 THEN <<>>
    ELSE IF Len(blob.Hash) < 4 THEN <<>>
    ELSE Join(threadDir \o <<DirBlobs, DirSha256, SubSeq(blob.Hash, 1, 2),
                             SubSeq(blob.Hash, 3, 4), blob.Hash>>)

InitPath ==
    /\ CcIdle
    /\ LedgerIdle
    /\ StoreIdle
    /\ CallIdle
    /\ IdGenIdle
    /\ BlobIdle
    /\ LoggedIdle
    /\ ReopenIdle
    /\ DiskIdle
    /\ pathCall = NoPathCall

CallBlobPath(blob) ==
    /\ ~pathCall.called
    /\ pathCall' = [called |-> TRUE, blob |-> blob, path |-> blobPath(ThreadDir, blob)]
    /\ UNCHANGED <<stCall, idGen, blobs, blobLog, logged, reopenCall, disk>>
    /\ UNCHANGED <<ccVars, ldVars, stVars>>

NextPath == \E blob \in BlobRefs : CallBlobPath(blob)

SpecPath == InitPath /\ [][NextPath]_vars

(***************************************************************************)
(* SpecThread: updateThreadAttachmentsLog and the record-saving commands   *)
(* on record files that may hold attachments_log and an unknown field.     *)
(***************************************************************************)
MaxThreadSteps == 2

ThreadID == <<1, 1>>
OtherID == <<1, 2>>
ExtraValues == {NoField, JSONString, JSONBigInt}

\* thread.json of ThreadID: any status, with or without alias, pointer and
\* unknown field
ThreadFiles ==
    {[Task(ThreadID, "t1", s, 1, 1, a) EXCEPT !.AttachmentsLog = l, !.Extra = x] :
        s \in StoredStatuses, a \in {NoShortID, SID(1)},
        l \in {NoField, AttachmentsLogName}, x \in ExtraValues}

\* a second record, written by the program
OtherFiles == {Task(OtherID, "t2", s, 1, 1, NoShortID) : s \in {StatusOpen, StatusDone}}

ThreadStores ==
    {(ThreadID :> f) : f \in ThreadFiles}
        \cup {(ThreadID :> f) @@ (OtherID :> g) : f \in ThreadFiles, g \in OtherFiles}

InitThread ==
    /\ CcIdle
    /\ LedgerIdle
    /\ CallIdle
    /\ IdGenIdle
    /\ BlobIdle
    /\ ExtIdle
    /\ tasks \in ThreadStores
    /\ clock = MaxClock
    /\ pc = [p \in Procs |-> "idle"]
    /\ local = [p \in Procs |-> NoTask]

ThreadFrame ==
    /\ UNCHANGED <<clock, pc, local, idGen, blobs, blobLog, pathCall, disk>>
    /\ UNCHANGED <<ccVars, ldVars>>

ThreadTokens == {IdTok(ThreadID), IdTok(OtherID), NumTok(1)}

\* one more step made; the last updateThreadAttachmentsLog call stays on record
Stepped == [stCall EXCEPT !.runs = @ + 1]

AttachLogged(id, before, res, writable) ==
    /\ stCall' = Call("updateThreadAttachmentsLog", IdTok(id), NoTask, before, res,
                      0, stCall.runs + 1, before, writable)
    /\ tasks' = res.st
    /\ logged' = IF res.err THEN logged ELSE logged \cup {id}
    /\ UNCHANGED reopenCall

CallUpdateThreadAttachmentsLog(id, loadWritable, writable) ==
    /\ stCall.runs < MaxThreadSteps
    /\ AttachLogged(id, tasks,
                    updateThreadAttachmentsLog(tasks, id, clock, loadWritable, writable),
                    writable)
    /\ ThreadFrame

Saved(st) ==
    /\ stCall.runs < MaxThreadSteps
    /\ tasks' = st
    /\ stCall' = Stepped
    /\ UNCHANGED <<logged, reopenCall>>
    /\ ThreadFrame

\* reopen.go RunReopen: the exit code (the saves of this model do not fail)
ReopenCode(st, ids) == IF GetEachByID(st, ids, <<>>, FALSE).err THEN 1 ELSE 0

\* what reopen is called with: one durable ID, or two of which one may be unknown
ReopenLists ==
    {<<IdTok(a)>> : a \in {ThreadID, OtherID, MissingID}}
        \cup {<<IdTok(a), IdTok(b)>> : a, b \in {ThreadID, OtherID, MissingID}}

ThreadUpdate(tok, title) == Saved(Update(tasks, <<tok>>, title, clock))
ThreadDescribe(tok) == Saved(Describe(tasks, tok, clock))
ThreadDone(tok) == Saved(Done(tasks, <<tok>>, clock))
ThreadArchive(tok) == Saved(Archive(tasks, <<tok>>, clock))
ThreadReopen(ids) ==
    /\ stCall.runs < MaxThreadSteps
    /\ tasks' = Reopen(tasks, ids, clock)
    /\ reopenCall' = [called |-> TRUE, ids |-> ids, before |-> tasks,
                      code |-> ReopenCode(tasks, ids)]
    /\ stCall' = Stepped
    /\ UNCHANGED logged
    /\ ThreadFrame
ThreadReindex == Saved(Reindex(tasks))
ThreadShow(tok) == Saved(Show(tasks, tok))

NextThread ==
    \/ \E id \in {ThreadID, OtherID, MissingID}, lw \in BOOLEAN, w \in BOOLEAN :
           CallUpdateThreadAttachmentsLog(id, lw, w)
    \/ \E tok \in ThreadTokens, title \in Titles : ThreadUpdate(tok, title)
    \/ \E tok \in ThreadTokens : ThreadDescribe(tok)
    \/ \E tok \in ThreadTokens : ThreadDone(tok)
    \/ \E tok \in ThreadTokens : ThreadArchive(tok)
    \/ \E ids \in ReopenLists : ThreadReopen(ids)
    \/ ThreadReindex
    \/ \E tok \in ThreadTokens : ThreadShow(tok)

SpecThread == InitThread /\ [][NextThread]_vars

(***************************************************************************)
(* SpecAttach: runAttachNote and runAttachLink on one thread whose record  *)
(* was written by the program.  The blob write, the ledger append and the  *)
(* record writes can each fail.                                            *)
(***************************************************************************)
MaxAttach == 2

\* hex.EncodeToString as a Go string: the characters one after the other
RECURSIVE Text(_)
Text(chars) == IF chars = <<>> THEN "" ELSE Head(chars) \o Text(Tail(chars))

\* open.go appendAttachmentEvent, by how far the call gets: "open" (OpenFile
\* fails), "write" (f.Write fails, nothing written), "part" (f.Write fails
\* after a part of the data), "newline" (WriteString fails), "ok"
AppendOutcomes == {"ok", "open", "write", "part", "newline"}

AppendedFile(file, e, outcome) ==
    CASE outcome = "ok" -> AfterWriteNewline(AfterWriteData(file, EventBytes(e)))
      [] outcome = "open" -> file
      [] outcome = "write" -> AfterOpen(file)
      [] outcome = "part" -> AfterWriteData(file, PartChunk(MarshalEvent(e), FALSE))
      [] outcome = "newline" -> AfterWriteData(file, EventBytes(e))

appendAttachmentEvent(file, e, outcome) ==
    [err |-> outcome # "ok", file |-> AppendedFile(file, e, outcome)]

\* the files an attach command works on, and its exit code
AttachState(st, fs, file, lg, code) ==
    [st |-> st, fs |-> fs, file |-> file, logged |-> lg, code |-> code]

\* the note contents captured from the editor (never empty)
AttachPayloads == {<<1>>, <<1, 2>>}

\* runAttachNote: the event built from what storeBlob returned
NoteEventOf(attID, now, b) ==
    AttachmentEvent("add", now,
        Attachment(attID, "note", "v1", "text/markdown",
                   BlobRef("sha256", Text(b.hash)), b.size, "", ""))

\* runAttachLink: the event
LinkEventOf(attID, now) ==
    AttachmentEvent("add", now, Attachment(attID, "link", "v2", "", NoBlob, 0, "u1", "v2"))

\* after updateThreadAttachmentsLog returned u
AttachUpdated(a, id, u) ==
    [a EXCEPT !.st = u.st,
              !.logged = IF u.err THEN @ ELSE @ \cup {id},
              !.code = IF u.err THEN 1 ELSE 0]

\* after appendAttachmentEvent returned ap
AttachAppended(a, id, ap, now, loadWritable, writable) ==
    IF ap.err THEN [a EXCEPT !.file = ap.file, !.code = 1]
    ELSE AttachUpdated([a EXCEPT !.file = ap.file], id,
                       updateThreadAttachmentsLog(a.st, id, now, loadWritable, writable))

\* after storeBlob returned b
AttachStored(a, id, b, attID, now, outcome, loadWritable, writable) ==
    IF b.err THEN [a EXCEPT !.fs = b.fs, !.code = 1]
    ELSE AttachAppended([a EXCEPT !.fs = b.fs], id,
                        appendAttachmentEvent(a.file, NoteEventOf(attID, now, b), outcome),
                        now, loadWritable, writable)

\* after st.ResolveID returned r
AttachNoteResolved(a, r, content, bw, attID, now, outcome, loadWritable, writable) ==
    IF r.err THEN [a EXCEPT !.st = r.st, !.code = 1]
    ELSE AttachStored([a EXCEPT !.st = r.st], r.t.ID,
                      storeBlob(a.fs, ThreadDir, content, bw),
                      attID, now, outcome, loadWritable, writable)

\* open.go runAttachNote
runAttachNote(a, tok, content, bw, attID, now, outcome, loadWritable, writable) ==
    AttachNoteResolved(a, ResolveID(a.st, tok), content, bw, attID, now, outcome,
                       loadWritable, writable)

AttachLinkResolved(a, r, attID, now, outcome, loadWritable, writable) ==
    IF r.err THEN [a EXCEPT !.st = r.st, !.code = 1]
    ELSE AttachAppended([a EXCEPT !.st = r.st], r.t.ID,
                        appendAttachmentEvent(a.file, LinkEventOf(attID, now), outcome),
                        now, loadWritable, writable)

\* open.go runAttachLink
runAttachLink(a, tok, attID, now, outcome, loadWritable, writable) ==
    AttachLinkResolved(a, ResolveID(a.st, tok), attID, now, outcome, loadWritable, writable)

AttachFiles ==
    {Task(ThreadID, "t1", s, 1, 1, a) : s \in {StatusOpen, StatusDone},
                                        a \in {NoShortID, SID(1)}}

InitAttach ==
    /\ CcIdle
    /\ LedgerIdle
    /\ AuxIdle
    /\ tasks \in {(ThreadID :> f) : f \in AttachFiles}
    /\ clock = 1
    /\ pc = [p \in Procs |-> "idle"]
    /\ local = [p \in Procs |-> NoTask]

AttachTokens == {IdTok(ThreadID), IdTok(MissingID), NumTok(1)}

\* the command has run: the files are as it left them
Attached(a) ==
    /\ stCall.runs < MaxAttach
    /\ stCall' = Stepped
    /\ tasks' = a.st
    /\ blobs' = a.fs
    /\ ledger' = a.file
    /\ logged' = a.logged
    /\ UNCHANGED <<ldResult, ldValid, ldPrev, appended, failures>>
    /\ UNCHANGED <<clock, pc, local, idGen, blobLog, pathCall, reopenCall, disk>>
    /\ UNCHANGED ccVars

RunAttachNote(tok, content, bw, attID, outcome, loadWritable, writable) ==
    Attached(runAttachNote(AttachState(tasks, blobs, ledger, logged, 0), tok, content, bw,
                           attID, clock, outcome, loadWritable, writable))

RunAttachLink(tok, attID, outcome, loadWritable, writable) ==
    Attached(runAttachLink(AttachState(tasks, blobs, ledger, logged, 0), tok,
                           attID, clock, outcome, loadWritable, writable))

NextAttach ==
    \/ \E tok \in AttachTokens, content \in AttachPayloads, attID \in AttIDs,
          outcome \in AppendOutcomes, lw \in BOOLEAN, w \in BOOLEAN :
          \E bw \in WriteOutcomes(content) :
              RunAttachNote(tok, content, bw, attID, outcome, lw, w)
    \/ \E tok \in AttachTokens, attID \in AttIDs, outcome \in AppendOutcomes,
          lw \in BOOLEAN, w \in BOOLEAN :
          RunAttachLink(tok, attID, outcome, lw, w)

SpecAttach == InitAttach /\ [][NextAttach]_vars

(***************************************************************************)
(* SpecSave: FileStore.Save and the write of updateThreadAttachmentsLog,   *)
(* one file system call at a time.  A write may fail part-way, a rename    *)
(* may fail, and the process may stop between or inside the calls.         *)
(***************************************************************************)
MaxSaves == 2

\* path of the record file of a durable ID, and path + ".tmp"
RecordPath(id) == [id |-> id, ext |-> <<"json">>]

\* variant: the data is written to the record file itself
PathItself(path) == path

\* tmpPath := path + ".tmp"
TmpPath(path) == [path EXCEPT !.ext = Append(@, "tmp")]

\* a file: the data handed to os.WriteFile, and whether all of it is in the file
File(data, complete) == [data |-> data, complete |-> complete]

\* os.WriteFile(path, data, 0644): the file is created or truncated, then
\* written.  "ok": all of it is written; "partial": some of it, then an error
\* (or the process stops); "none": the file could not be opened.
WriteFileOutcomes == {"ok", "partial", "none"}
WriteFile(fs, path, data, outcome) ==
    IF outcome = "none" THEN fs
    ELSE [q \in DOMAIN fs \cup {path} |->
             IF q = path THEN File(data, outcome = "ok") ELSE fs[q]]

\* os.Remove(path)
Remove(fs, path) == [q \in DOMAIN fs \ {path} |-> fs[q]]

\* os.Rename(from, to): to now holds what from held, from is gone
Rename(fs, from, to) ==
    IF from = to THEN fs
    ELSE [q \in (DOMAIN fs \cup {to}) \ {from} |-> IF q = to THEN fs[from] ELSE fs[q]]

SaveProc == "p1"

SavedFiles ==
    {Task(ThreadID, "t1", s, 1, 1, a) : s \in {StatusOpen, StatusDone},
                                        a \in {NoShortID, SID(1)}}

InitSave ==
    /\ CcIdle
    /\ LedgerIdle
    /\ StoreIdle
    /\ CallIdle
    /\ IdGenIdle
    /\ BlobIdle
    /\ PathIdle
    /\ LoggedIdle
    /\ ReopenIdle
    /\ disk \in {(RecordPath(ThreadID) :> File(f, TRUE)) : f \in SavedFiles}

SaveFrame ==
    /\ UNCHANGED <<tasks, clock, idGen, blobs, blobLog, pathCall, logged, reopenCall>>
    /\ UNCHANGED <<ccVars, ldVars>>

\* what the caller of Save holds: the record as loaded, with a field changed
Changed(file) ==
    {[file EXCEPT !.Title = "t2", !.UpdatedAt = clock + 1],
     [file EXCEPT !.Status = StatusDone, !.ShortID = NoShortID, !.UpdatedAt = clock + 1]}

Entered(name, t) ==
    /\ pc[SaveProc] = "idle"
    /\ stCall.runs < MaxSaves
    /\ stCall' = Stepped
    /\ pc' = [pc EXCEPT ![SaveProc] = name]
    /\ local' = [local EXCEPT ![SaveProc] = t]
    /\ UNCHANGED disk
    /\ SaveFrame

\* FileStore.Save(t) is entered: json.MarshalIndent(t) is the data
EnterSave(t) == Entered("write", t)

\* updateThreadAttachmentsLog has the new threadData: json.MarshalIndent of it
EnterUpdateThreadAttachmentsLog(id) ==
    Entered("write", UpdatedThreadData(disk[RecordPath(id)].data, clock + 1))

\* os.WriteFile(tmpPath, data, 0644); on an error the function returns
WriteTmp(outcome) ==
    /\ pc[SaveProc] = "write"
    /\ disk' = WriteFile(disk, TmpPath(RecordPath(local[SaveProc].ID)),
                         local[SaveProc], outcome)
    /\ pc' = [pc EXCEPT ![SaveProc] = IF outcome = "ok" THEN "rename" ELSE "idle"]
    /\ UNCHANGED <<local, stCall>>
    /\ SaveFrame

\* os.Rename(tmpPath, path); on an error os.Remove(tmpPath)
RenameTmp(ok) ==
    /\ pc[SaveProc] = "rename"
    /\ disk' = IF ok
               THEN Rename(disk, TmpPath(RecordPath(local[SaveProc].ID)),
                           RecordPath(local[SaveProc].ID))
               ELSE Remove(disk, TmpPath(RecordPath(local[SaveProc].ID)))
    /\ pc' = [pc EXCEPT ![SaveProc] = "idle"]
    /\ UNCHANGED <<local, stCall>>
    /\ SaveFrame

\* the process stops between the write and the rename
StopBeforeRename ==
    /\ pc[SaveProc] = "rename"
    /\ pc' = [pc EXCEPT ![SaveProc] = "idle"]
    /\ UNCHANGED <<local, stCall, disk>>
    /\ SaveFrame

NextSave ==
    \/ \E t \in Changed(disk[RecordPath(ThreadID)].data) : EnterSave(t)
    \/ EnterUpdateThreadAttachmentsLog(ThreadID)
    \/ \E outcome \in WriteFileOutcomes : WriteTmp(outcome)
    \/ \E ok \in BOOLEAN : RenameTmp(ok)
    \/ StopBeforeRename

SpecSave == InitSave /\ [][NextSave]_vars

(***************************************************************************)
(* SpecLoad: loadAttachmentsWithMetadata on a bounded set of files         *)
(***************************************************************************)
InitLoad ==
    /\ AuxIdle
    /\ CcIdle
    /\ StoreIdle
    /\ ledger \in {[exists |-> TRUE, lines |-> ls, tail |-> tl] :
                       ls \in SeqsUpTo(LoadLines, MaxLines), tl \in LoadTails}
                  \cup {NoFile}
    /\ ldResult = LoadResult(FALSE, <<>>, 0)
    /\ ldValid = FALSE
    /\ ldPrev = NoFile
    /\ appended = <<>>
    /\ failures = 0

LoadEvents ==
    /\ ~ldValid
    /\ ldResult' = loadAttachmentsWithMetadata(ledger)
    /\ ldValid' = TRUE
    /\ UNCHANGED <<ledger, ldPrev, appended, failures>>
    /\ UNCHANGED <<ccVars, stVars, auxVars>>

NextLoad == LoadEvents

SpecLoad == InitLoad /\ [][NextLoad]_vars

(***************************************************************************)
(* SpecLedger: appendAttachmentEvent and loadAttachmentsWithMetadata on a  *)
(* ledger that starts absent                                               *)
(***************************************************************************)
InitLedger == CcIdle /\ LedgerIdle /\ StoreIdle /\ AuxIdle

CallsLeft == Len(appended) + failures < MaxAppends

\* The call returns nil: file opened, data written, newline written.
AppendEventOK(e) ==
    /\ CallsLeft
    /\ ledger' = AfterWriteNewline(AfterWriteData(ledger, EventBytes(e)))
    /\ appended' = Append(appended, e)
    /\ ldPrev' = ledger
    /\ ldValid' = FALSE
    /\ UNCHANGED <<ldResult, failures>>
    /\ UNCHANGED <<ccVars, stVars, auxVars>>

\* os.OpenFile fails: nothing is created or written.
AppendEventOpenFails(e) ==
    /\ CallsLeft
    /\ failures' = failures + 1
    /\ ldPrev' = ledger
    /\ ldValid' = FALSE
    /\ UNCHANGED <<ledger, ldResult, appended>>
    /\ UNCHANGED <<ccVars, stVars, auxVars>>

\* f.Write(data) fails having written nothing, or a proper prefix of data.
AppendEventWriteFails(e, written) ==
    /\ CallsLeft
    /\ ledger' = IF written
                 THEN AfterWriteData(ledger, PartChunk(MarshalEvent(e), FALSE))
                 ELSE AfterOpen(ledger)
    /\ failures' = failures + 1
    /\ ldPrev' = ledger
    /\ ldValid' = FALSE
    /\ UNCHANGED <<ldResult, appended>>
    /\ UNCHANGED <<ccVars, stVars, auxVars>>

\* f.Write(data) succeeds and f.WriteString("\n") fails.
AppendEventNewlineFails(e) ==
    /\ CallsLeft
    /\ ledger' = AfterWriteData(ledger, EventBytes(e))
    /\ failures' = failures + 1
    /\ ldPrev' = ledger
    /\ ldValid' = FALSE
    /\ UNCHANGED <<ldResult, appended>>
    /\ UNCHANGED <<ccVars, stVars, auxVars>>

NextLedger ==
    \/ \E e \in LedgerEvents : AppendEventOK(e)
    \/ \E e \in LedgerEvents : AppendEventOpenFails(e)
    \/ \E e \in LedgerEvents, written \in BOOLEAN : AppendEventWriteFails(e, written)
    \/ \E e \in LedgerEvents : AppendEventNewlineFails(e)
    \/ LoadEvents

SpecLedger == InitLedger /\ [][NextLedger]_vars

(***************************************************************************)
(* SpecReduce: the reducer called twice on one input                       *)
(***************************************************************************)
InitReduce ==
    /\ AuxIdle
    /\ ccEvents \in SeqsUpTo(ReduceEvents, MaxEvents)
    /\ ccResult = <<>>
    /\ ccRerun = <<>>
    /\ ccDone = FALSE
    /\ LedgerIdle
    /\ StoreIdle

RunComputeCurrent ==
    /\ ~ccDone
    /\ ccResult' \in computeCurrentAttachments(ccEvents)
    /\ ccRerun' \in computeCurrentAttachments(ccEvents)
    /\ ccDone' = TRUE
    /\ UNCHANGED ccEvents
    /\ UNCHANGED <<ldVars, stVars, auxVars>>

NextReduce == RunComputeCurrent

SpecReduce == InitReduce /\ [][NextReduce]_vars

(***************************************************************************)
(* Spec: the commands run one at a time to completion (single writer),     *)
(* starting from an empty workspace, on a file system that does not fail.  *)
(***************************************************************************)
Init == CcIdle /\ LedgerIdle /\ StoreIdle /\ AuxIdle

\* The alias counter is unbounded in the code; commands that would take it
\* past MaxShortID are left out.
AliasesBounded(st) ==
    \A id \in DOMAIN st :
        IF st[id].ShortID = NoShortID THEN TRUE ELSE st[id].ShortID[1] <= MaxShortID

\* tokens that are not numbers: the durable IDs on file and one that is not
IdTokens == {IdTok(id) : id \in DOMAIN tasks \cup {MissingID}}

ArgTokens == IdTokens \cup {NumTok(n) : n \in 1..MaxShortID}

\* one <id> argument of any kind, or two durable IDs (a number names the
\* record a durable ID names, or none)
ArgLists == {<<a>> : a \in ArgTokens} \cup {<<a, b>> : a \in IdTokens, b \in IdTokens}

Tick ==
    /\ clock < MaxClock
    /\ clock' = clock + 1
    /\ UNCHANGED <<tasks, pc, local>>
    /\ UNCHANGED <<ccVars, ldVars, auxVars>>

RunAdd(title, rnd) ==
    /\ Cardinality(DOMAIN tasks) < MaxTasks
    /\ GenerateID(clock, rnd) \notin DOMAIN tasks
    /\ AliasesBounded(Add(tasks, GenerateID(clock, rnd), title, clock))
    /\ tasks' = Add(tasks, GenerateID(clock, rnd), title, clock)
    /\ UNCHANGED <<clock, pc, local>>
    /\ UNCHANGED <<ccVars, ldVars, auxVars>>

RunList ==
    /\ AliasesBounded(List(tasks))
    /\ tasks' = List(tasks)
    /\ UNCHANGED <<clock, pc, local>>
    /\ UNCHANGED <<ccVars, ldVars, auxVars>>

RunShow(tok) ==
    /\ AliasesBounded(Show(tasks, tok))
    /\ tasks' = Show(tasks, tok)
    /\ UNCHANGED <<clock, pc, local>>
    /\ UNCHANGED <<ccVars, ldVars, auxVars>>

RunUpdate(ids, title) ==
    /\ AliasesBounded(Update(tasks, ids, title, clock))
    /\ tasks' = Update(tasks, ids, title, clock)
    /\ UNCHANGED <<clock, pc, local>>
    /\ UNCHANGED <<ccVars, ldVars, auxVars>>

RunDone(ids) ==
    /\ AliasesBounded(Done(tasks, ids, clock))
    /\ tasks' = Done(tasks, ids, clock)
    /\ UNCHANGED <<clock, pc, local>>
    /\ UNCHANGED <<ccVars, ldVars, auxVars>>

RunArchive(ids) ==
    /\ AliasesBounded(Archive(tasks, ids, clock))
    /\ tasks' = Archive(tasks, ids, clock)
    /\ UNCHANGED <<clock, pc, local>>
    /\ UNCHANGED <<ccVars, ldVars, auxVars>>

RunReopen(ids) ==
    /\ AliasesBounded(Reopen(tasks, ids, clock))
    /\ tasks' = Reopen(tasks, ids, clock)
    /\ UNCHANGED <<clock, pc, local>>
    /\ UNCHANGED <<ccVars, ldVars, auxVars>>

RunReindex ==
    /\ tasks' = Reindex(tasks)
    /\ UNCHANGED <<clock, pc, local>>
    /\ UNCHANGED <<ccVars, ldVars, auxVars>>

Next ==
    \/ Tick
    \/ \E title \in Titles, rnd \in RndValues : RunAdd(title, rnd)
    \/ RunList
    \/ \E tok \in ArgTokens : RunShow(tok)
    \/ \E ids \in ArgLists, title \in Titles : RunUpdate(ids, title)
    \/ \E ids \in ArgLists : RunDone(ids)
    \/ \E ids \in ArgLists : RunArchive(ids)
    \/ \E ids \in ArgLists : RunReopen(ids)
    \/ RunReindex

Spec == Init /\ [][Next]_vars

(***************************************************************************)
(* SpecRace: two processes share the workspace; each file-system access    *)
(* of a command (a read of the records, a Save) is one step.               *)
(***************************************************************************)
InitRace == CcIdle /\ LedgerIdle /\ StoreIdle /\ AuxIdle

PendingIDs == {local[q].ID : q \in {r \in Procs : pc[r] # "idle"}}

\* add: task.GenerateID, GenerateNextShortID, the Task literal
AddRead(p, rnd) ==
    /\ pc[p] = "idle"
    /\ Cardinality(DOMAIN tasks \cup PendingIDs) < MaxTasks
    /\ GenerateID(clock, rnd) \notin DOMAIN tasks \cup PendingIDs
    /\ GenerateNextShortID(tasks) <= MaxShortID
    /\ local' = [local EXCEPT ![p] = Task(GenerateID(clock, rnd), "t1", StatusOpen,
                                          clock, clock, SID(GenerateNextShortID(tasks)))]
    /\ pc' = [pc EXCEPT ![p] = "add_save"]
    /\ UNCHANGED <<tasks, clock>>
    /\ UNCHANGED <<ccVars, ldVars, auxVars>>

\* add: st.Save(t)
AddSave(p) ==
    /\ pc[p] = "add_save"
    /\ tasks' = Save(tasks, local[p])
    /\ pc' = [pc EXCEPT ![p] = "idle"]
    /\ local' = [local EXCEPT ![p] = NoTask]
    /\ UNCHANGED clock
    /\ UNCHANGED <<ccVars, ldVars, auxVars>>

\* done <durable id>: ResolveID, then the status change in memory
DoneRead(p, id) ==
    /\ pc[p] = "idle"
    /\ ~ResolveID(tasks, IdTok(id)).err
    /\ AliasesBounded(ResolveID(tasks, IdTok(id)).st)
    /\ tasks' = ResolveID(tasks, IdTok(id)).st
    /\ local' = [local EXCEPT ![p] = [ResolveID(tasks, IdTok(id)).t EXCEPT
                                          !.Status = StatusDone,
                                          !.UpdatedAt = clock,
                                          !.ShortID = NoShortID]]
    /\ pc' = [pc EXCEPT ![p] = "done_save"]
    /\ UNCHANGED clock
    /\ UNCHANGED <<ccVars, ldVars, auxVars>>

\* done: st.Save(t)
DoneSave(p) ==
    /\ pc[p] = "done_save"
    /\ tasks' = Save(tasks, local[p])
    /\ pc' = [pc EXCEPT ![p] = "idle"]
    /\ local' = [local EXCEPT ![p] = NoTask]
    /\ UNCHANGED clock
    /\ UNCHANGED <<ccVars, ldVars, auxVars>>

\* reopen <durable id> of a record that is not open: GetByID, then the
\* status change in memory
ReopenRead(p, id) ==
    /\ pc[p] = "idle"
    /\ ~GetByID(tasks, IdTok(id)).err
    /\ GetByID(tasks, IdTok(id)).t.Status # StatusOpen
    /\ tasks' = GetByID(tasks, IdTok(id)).st
    /\ local' = [local EXCEPT ![p] = [GetByID(tasks, IdTok(id)).t EXCEPT
                                          !.Status = StatusOpen,
                                          !.UpdatedAt = clock]]
    /\ pc' = [pc EXCEPT ![p] = "reopen_ensure"]
    /\ UNCHANGED clock
    /\ UNCHANGED <<ccVars, ldVars, auxVars>>

\* reopen: EnsureShortID up to t.ShortID = &nextID
ReopenEnsureRead(p) ==
    /\ pc[p] = "reopen_ensure"
    /\ IF local[p].ShortID # NoShortID
       THEN /\ pc' = [pc EXCEPT ![p] = "reopen_save"]
            /\ UNCHANGED local
       ELSE /\ GenerateNextShortID(tasks) <= MaxShortID
            /\ local' = [local EXCEPT ![p].ShortID = SID(GenerateNextShortID(tasks))]
            /\ pc' = [pc EXCEPT ![p] = "reopen_ensure_save"]
    /\ UNCHANGED <<tasks, clock>>
    /\ UNCHANGED <<ccVars, ldVars, auxVars>>

\* reopen: the Save at the end of EnsureShortID
ReopenEnsureSave(p) ==
    /\ pc[p] = "reopen_ensure_save"
    /\ tasks' = Save(tasks, local[p])
    /\ pc' = [pc EXCEPT ![p] = "reopen_save"]
    /\ UNCHANGED <<clock, local>>
    /\ UNCHANGED <<ccVars, ldVars, auxVars>>

\* reopen: st.Save(t)
ReopenSave(p) ==
    /\ pc[p] = "reopen_save"
    /\ tasks' = Save(tasks, local[p])
    /\ pc' = [pc EXCEPT ![p] = "idle"]
    /\ local' = [local EXCEPT ![p] = NoTask]
    /\ UNCHANGED clock
    /\ UNCHANGED <<ccVars, ldVars, auxVars>>

NextRace ==
    \/ Tick
    \/ \E p \in Procs, rnd \in RndValues : AddRead(p, rnd)
    \/ \E p \in Procs : AddSave(p)
    \/ \E p \in Procs, id \in DOMAIN tasks : DoneRead(p, id)
    \/ \E p \in Procs : DoneSave(p)
    \/ \E p \in Procs, id \in DOMAIN tasks : ReopenRead(p, id)
    \/ \E p \in Procs : ReopenEnsureRead(p)
    \/ \E p \in Procs : ReopenEnsureSave(p)
    \/ \E p \in Procs : ReopenSave(p)

SpecRace == InitRace /\ [][NextRace]_vars

(***************************************************************************)
(* Properties of the reducer (checked under SpecReduce)                    *)
(***************************************************************************)
IsAddRemove(e) == e.Op \in {"add", "remove"}

\* Position of the last add/remove event of `id` in `events`, 0 if none.
LastIndex(events, id) ==
    LET S == {i \in 1..Len(events) : events[i].Att.AttID = id /\ IsAddRemove(events[i])}
    IN IF S = {} THEN 0 ELSE CHOOSE i \in S : \A j \in S : j <= i

\* The last add/remove event of `id`, as a set of at most one event.
LastEvent(events, id) ==
    IF LastIndex(events, id) = 0 THEN {} ELSE {events[LastIndex(events, id)]}

EntriesFor(r, id) == {i \in 1..Len(r) : r[i].Att.AttID = id}
AttachmentSet(r) == {r[i] : i \in 1..Len(r)}

PermsOf(events) ==
    {[i \in 1..Len(events) |-> events[p[i]]] : p \in Permutations(1..Len(events))}

OpsAndIds(events) == [i \in 1..Len(events) |-> <<events[i].Op, events[i].Att.AttID>>]

AddAddRemove == <<<<"add", "att1">>, <<"add", "att2">>, <<"remove", "att1">>>>
AddRemoveAdd == <<<<"add", "att1">>, <<"remove", "att1">>, <<"add", "att1">>>>

\* C1: the result holds exactly one entry for each attachment id whose last
\* add/remove event is an add, that entry being the last add itself, and no
\* entry for an id whose last add/remove event is a remove (or that has
\* none); add(att1), add(att2), remove(att1) yields exactly [att2].
C1_LastAddWins ==
    ccDone =>
        /\ \A id \in AttIDs :
              LET k == LastIndex(ccEvents, id)
              IN IF k > 0 /\ ccEvents[k].Op = "add"
                 THEN /\ Cardinality(EntriesFor(ccResult, id)) = 1
                      /\ \A i \in EntriesFor(ccResult, id) : ccResult[i] = ccEvents[k]
                 ELSE EntriesFor(ccResult, id) = {}
        /\ (OpsAndIds(ccEvents) = AddAddRemove => ccResult = <<ccEvents[2]>>)

C1_Witness ==
    /\ ccDone
    /\ OpsAndIds(ccEvents) = AddAddRemove
    /\ ccResult = <<ccEvents[2]>>

\* C2 as stated: every permutation of the input yields the same attachment
\* set as the input.
C2_AnyPermutationSameSet ==
    ccDone =>
        \A P \in PermsOf(ccEvents) :
            \A r \in computeCurrentAttachments(P) :
                AttachmentSet(r) = AttachmentSet(ccResult)

SameLastEvents(E, P) == \A id \in AttIDs : LastEvent(E, id) = LastEvent(P, id)

\* C2 amended: every permutation of the input that leaves each attachment
\* id with the same last add/remove event yields the same attachment set
\* (same ids, same metadata) as the input.
C2_PermutationKeepingLastSameSet ==
    ccDone =>
        \A P \in PermsOf(ccEvents) :
            SameLastEvents(ccEvents, P) =>
                \A r \in computeCurrentAttachments(P) :
                    AttachmentSet(r) = AttachmentSet(ccResult)

C2_Witness ==
    /\ ccDone
    /\ Len(ccResult) = 2
    /\ \E i \in 1..Len(ccEvents) : ccEvents[i].Op = "remove"
    /\ \E P \in PermsOf(ccEvents) : P # ccEvents /\ SameLastEvents(ccEvents, P)

\* C3: the result is ascending by TS, whatever the order of the input.
C3_SortedByTimestamp ==
    ccDone => \A i \in 1..(Len(ccResult) - 1) : ccResult[i].TS <= ccResult[i + 1].TS

C3_Witness ==
    /\ ccDone
    /\ Len(ccEvents) = 2
    /\ ccEvents[1].TS > ccEvents[2].TS
    /\ ccResult = <<ccEvents[2], ccEvents[1]>>

\* C4 as stated: two calls on the same input return the same slice, entry
\* for entry.
C4_RerunIdentical == ccDone => ccRerun = ccResult

\* State after prefix k of the input has been replayed.
ActiveAfter(k) == ReplayEvents(SubSeq(ccEvents, 1, k), <<>>)

\* C5: per attachment id the replay is the machine absent/present: an add
\* makes the id present with the metadata of that add (also after a remove),
\* a remove makes it absent (and leaves an absent id absent), any event
\* leaves the other ids as they were; the result lists the ids present at
\* the end; add(att1,"v1"), remove(att1), add(att1,"v2") yields [att1 "v2"].
C5_AbsentPresentMachine ==
    ccDone =>
        /\ \A k \in 1..Len(ccEvents) :
              LET e == ccEvents[k]
                  before == ActiveAfter(k - 1)
                  after == ActiveAfter(k)
              IN /\ e.Op = "add" =>
                        e.Att.AttID \in DOMAIN after /\ after[e.Att.AttID] = e
                 /\ e.Op = "remove" => e.Att.AttID \notin DOMAIN after
                 /\ \A id \in AttIDs :
                        (id # e.Att.AttID \/ ~IsAddRemove(e)) =>
                            /\ (id \in DOMAIN after) = (id \in DOMAIN before)
                            /\ id \in DOMAIN after => after[id] = before[id]
        /\ AttachmentSet(ccResult) =
              {ActiveAfter(Len(ccEvents))[id] : id \in DOMAIN ActiveAfter(Len(ccEvents))}
        /\ (OpsAndIds(ccEvents) = AddRemoveAdd /\ ccEvents[3].Att.Name = "v2") =>
              ccResult = <<ccEvents[3]>>

C5_Witness ==
    /\ ccDone
    /\ OpsAndIds(ccEvents) = AddRemoveAdd
    /\ ccEvents[1].Att.Name = "v1"
    /\ ccEvents[3].Att.Name = "v2"
    /\ ccResult = <<ccEvents[3]>>
    /\ ccResult[1].Att.Name = "v2"

(***************************************************************************)
(* Properties of the ledger (checked under SpecLoad and SpecLedger)        *)
(***************************************************************************)
\* The lines of LoadLines by what they are, independently of the parser.
BlankLines == {EmptyLine, SpacesLine}
WellFormedLines == {NoteLine, LinkLine, PaddedRemoveLine, EmptyObjectLine, HugeEventLine}
MalformedLines == {JunkLine, WrongTypeLine, TruncatedLine, TwoObjectsLine, HugeJunkLine}
OverlongLines == {HugeJunkLine, HugeEventLine}

\* The event a well-formed line spells.
EventOfLine(line) ==
    CASE line = NoteLine -> NoteEvent
      [] line = LinkLine -> LinkEvent
      [] line = PaddedRemoveLine -> RemoveEvent
      [] line = HugeEventLine -> HugeEvent
      [] OTHER -> AttachmentEvent("", 0, ZeroAttachment)

IsWellFormedLine(line) == line \in WellFormedLines

EventsOfLines(lines) ==
    LET wf == SelectSeq(lines, IsWellFormedLine)
    IN [i \in 1..Len(wf) |-> EventOfLine(wf[i])]

MalformedIn(lines) == Cardinality({i \in 1..Len(lines) : lines[i] \in MalformedLines})

FileLines == ScannedLines(ledger)

\* C6 as stated: a file with N well-formed lines, M malformed lines and any
\* blank lines, in any order, loads as exactly the N events in file order
\* with a malformed count of M.
C6_LoadCountsEveryLine ==
    ldValid => ldResult = LoadResult(FALSE, EventsOfLines(FileLines), MalformedIn(FileLines))

\* C6 amended: the same, provided every line is shorter than the scanner's
\* 1 MiB buffer; a file holding a longer line (well-formed or not) makes the
\* load fail with an error and no events.
C6_LoadCountsEveryShortLine ==
    ldValid =>
        IF \E i \in 1..Len(FileLines) : FileLines[i] \in OverlongLines
        THEN ldResult = LoadResult(TRUE, <<>>, 0)
        ELSE ldResult = LoadResult(FALSE, EventsOfLines(FileLines), MalformedIn(FileLines))

C6_Witness ==
    /\ ldValid
    /\ FileLines = <<JunkLine, EmptyLine, NoteLine, TruncatedLine>>
    /\ ldResult = LoadResult(FALSE, <<NoteEvent>>, 2)

\* Every line already in the file before the last append call is still
\* there, unchanged and in place.
EarlierLinesKept ==
    /\ Len(ldPrev.lines) <= Len(ledger.lines)
    /\ SubSeq(ledger.lines, 1, Len(ldPrev.lines)) = ldPrev.lines

\* C7 as stated: after successful appends e1..en on an absent ledger (no
\* failed call among them), the load returns exactly [e1..en] with malformed
\* count 0, and each append leaves the earlier lines unchanged.
C7_AppendsReadBackExactly ==
    failures = 0 =>
        /\ EarlierLinesKept
        /\ ldValid => ldResult = LoadResult(FALSE, appended, 0)

\* What an appended event is read back as: a string that is not valid UTF-8
\* comes back with U+FFFD in place of the bad bytes.
ReadBack(e) ==
    IF e = BadUTF8Event
    THEN AttachmentEvent("add", 2,
             Attachment("att2", "link", ReplacementChar, "", NoBlob, 0, "u1", ReplacementChar))
    ELSE e

\* C7 amended: after successful appends e1..en on an absent ledger, each
\* append leaves the earlier lines unchanged, and the load returns
\* [e1..en] in call order with malformed count 0, except that strings that
\* are not valid UTF-8 come back with U+FFFD, and that the load fails when
\* the JSON line of some event reaches 1 MiB.
C7_AppendsReadBack ==
    failures = 0 =>
        /\ EarlierLinesKept
        /\ ldValid =>
              IF \E i \in 1..Len(appended) : appended[i] = HugeEvent
              THEN ldResult = LoadResult(TRUE, <<>>, 0)
              ELSE ldResult = LoadResult(FALSE, [i \in 1..Len(appended) |-> ReadBack(appended[i])], 0)

C7_Witness ==
    /\ ldValid
    /\ failures = 0
    /\ appended = <<NoteEvent, LinkEvent, RemoveEvent>>
    /\ ledger.lines = <<NoteLine, LinkLine, <<EventBytes(RemoveEvent)>>>>
    /\ ldPrev.lines = <<NoteLine, LinkLine>>
    /\ ldResult = LoadResult(FALSE, appended, 0)

PlainEvents == {NoteEvent, LinkEvent, RemoveEvent}

\* C8 as stated: a call that reports failure leaves nothing that is read as
\* an event, and later successful calls are still read back: the load
\* returns exactly the events of the successful calls (here for events of
\* ordinary size and valid UTF-8).
C8_FailedAppendLeavesNoEvent ==
    (ldValid /\ \A i \in 1..Len(appended) : appended[i] \in PlainEvents) =>
        /\ ~ldResult.err
        /\ ldResult.Events = appended

(***************************************************************************)
(* Properties of alias allocation (checked under Spec and SpecRace)        *)
(***************************************************************************)
ActiveWithAlias(st) ==
    {id \in DOMAIN st : st[id].Status = StatusOpen /\ st[id].ShortID # NoShortID}

DuplicateAlias(st) ==
    \E a \in ActiveWithAlias(st), b \in ActiveWithAlias(st) :
        a # b /\ st[a].ShortID = st[b].ShortID

AllocSavePCs == {"add_save", "reopen_ensure_save"}

\* C10: the Save that ends an allocation persists the record as open with
\* the alias its process computed when it read the store, whatever the
\* store holds by then: no step of the allocation path notices that another
\* open record has taken the same alias in between, so two processes can
\* leave two open records with one alias.
C10_StaleAliasIsPersisted ==
    [][\A p \in Procs :
          (pc[p] \in AllocSavePCs /\ pc'[p] # pc[p]) =>
              /\ local[p].ID \in DOMAIN tasks'
              /\ tasks'[local[p].ID].Status = StatusOpen
              /\ tasks'[local[p].ID].ShortID = local[p].ShortID]_vars

\* both processes have finished and two open records share an alias; one
\* of them got it through reopen
C10_Witness ==
    /\ \A p \in Procs : pc[p] = "idle"
    /\ DuplicateAlias(tasks)
    /\ \E a \in ActiveWithAlias(tasks), b \in ActiveWithAlias(tasks) :
           /\ a # b
           /\ tasks[a].ShortID = tasks[b].ShortID
           /\ tasks[a].UpdatedAt > tasks[a].CreatedAt

(***************************************************************************)
(* Properties of the FileStore calls (SpecStore)                           *)
(***************************************************************************)
\* the open records of a store, as loaded, that carry alias n
ActiveHits(st, n) ==
    {id \in DOMAIN st : /\ loadTask(st, id).Status = StatusOpen
                        /\ loadTask(st, id).ShortID = SID(n)}

\* the records of a store that are not open and carry alias n
InactiveHits(st, n) ==
    {id \in DOMAIN st : /\ loadTask(st, id).Status # StatusOpen
                        /\ loadTask(st, id).ShortID = SID(n)}

SameButAlias(a, b) == [a EXCEPT !.ShortID = NoShortID] = [b EXCEPT !.ShortID = NoShortID]

\* the call returned, without error, the stored record `id`
ReturnedRecord(c, id) ==
    /\ ~c.res.err
    /\ c.res.t.ID = id
    /\ SameButAlias(c.res.t, loadTask(c.before, id))

\* C11: ResolveID(token) returns the record whose durable ID is the token
\* when there is one; otherwise, when the token is a number n and exactly
\* one open record carries alias n, it returns that record, and a number
\* never resolves to a record that is not open; a token that is neither a
\* stored durable ID nor a number gets an error and no record.
C11_ResolveIDLookup ==
    stCall.op = "ResolveID" =>
        /\ (stCall.tok.kind = "id" /\ stCall.tok.id \in DOMAIN stCall.before)
               => ReturnedRecord(stCall, stCall.tok.id)
        /\ (stCall.tok.kind = "num"
                /\ Cardinality(ActiveHits(stCall.before, stCall.tok.n)) = 1)
               => \E id \in ActiveHits(stCall.before, stCall.tok.n) :
                      ReturnedRecord(stCall, id)
        /\ (stCall.tok.kind = "num" /\ ~stCall.res.err)
               => /\ stCall.res.t.Status = StatusOpen
                  /\ stCall.res.t.ID \in ActiveHits(stCall.before, stCall.tok.n)
        /\ (stCall.tok.kind = "id" /\ stCall.tok.id \notin DOMAIN stCall.before)
               => /\ stCall.res.err
                  /\ stCall.res.msg = ErrNotValid
                  /\ stCall.res.t = NoTask

\* a number resolved to the one open record carrying it while a closed
\* record carries the same alias
C11_Witness ==
    /\ stCall.op = "ResolveID"
    /\ stCall.tok.kind = "num"
    /\ ~stCall.res.err
    /\ InactiveHits(stCall.before, stCall.tok.n) # {}
    /\ stCall.res.t.ID \in ActiveHits(stCall.before, stCall.tok.n)

\* C12: when more than one open record carries alias n (and n is no durable
\* ID), ResolveID(n) returns the "refers to multiple tasks" error, returns
\* no record, and leaves every record file as it was.
C12_AmbiguousAliasIsAnError ==
    (/\ stCall.op = "ResolveID"
     /\ stCall.tok.kind = "num"
     /\ Cardinality(ActiveHits(stCall.before, stCall.tok.n)) > 1)
        => /\ stCall.res.err
           /\ stCall.res.msg = ErrMultiple
           /\ stCall.res.t = NoTask
           /\ stCall.res.st = stCall.before
           /\ tasks = stCall.before

\* ResolveID was called with a number that two open records carry
C12_Witness ==
    /\ stCall.op = "ResolveID"
    /\ stCall.tok.kind = "num"
    /\ Cardinality(ActiveHits(stCall.before, stCall.tok.n)) = 2
    /\ stCall.res.err

\* the open records of a store that come before record id in
\* (creation time, durable ID) order
OpenBefore(st, id) ==
    {j \in DOMAIN st : st[j].Status = StatusOpen /\ Before(st[j], st[id])}

\* the store holds the same records as `before` held when loaded, aliases
\* aside
SameRecords(st, before) ==
    /\ DOMAIN st = DOMAIN before
    /\ \A id \in DOMAIN st : SameButAlias(st[id], loadTask(before, id))

\* C13: after reindex, on any stored record set, the K open records carry
\* the aliases 1..K in ascending (creation time, durable ID) order and every
\* record that is not open carries none; nothing else of a record changes.
C13_ReindexRenumbers ==
    stCall.op = "Reindex" =>
        /\ SameRecords(tasks, stCall.before)
        /\ \A id \in DOMAIN tasks :
              IF tasks[id].Status = StatusOpen
              THEN tasks[id].ShortID = SID(Cardinality(OpenBefore(tasks, id)) + 1)
              ELSE tasks[id].ShortID = NoShortID

\* reindex ran on a store where two open records carried the same alias,
\* not 1, the one created first having the larger durable ID
C13_Witness ==
    /\ stCall.op = "Reindex"
    /\ stCall.runs = 1
    /\ \E a, b \in DOMAIN stCall.before :
          /\ a # b
          /\ stCall.before[a].Status = StatusOpen
          /\ stCall.before[b].Status = StatusOpen
          /\ stCall.before[a].ShortID = stCall.before[b].ShortID
          /\ stCall.before[a].ShortID \notin {NoShortID, SID(1)}
          /\ stCall.before[a].CreatedAt < stCall.before[b].CreatedAt
          /\ IDLess(b, a)
          /\ tasks[a].ShortID = SID(1)
          /\ tasks[b].ShortID = SID(2)

AliasOf(st) == [id \in DOMAIN st |-> st[id].ShortID]

\* C14: a second reindex run right after a first one leaves the alias of
\* every record as the first run left it.
C14_ReindexIdempotent ==
    (stCall.op = "Reindex" /\ stCall.runs = 2)
        => AliasOf(tasks) = AliasOf(stCall.before)

\* reindex ran twice on a store whose aliases the first run had to change
C14_Witness ==
    /\ stCall.op = "Reindex"
    /\ stCall.runs = 2
    /\ AliasOf(stCall.orig) # AliasOf(stCall.before)
    /\ \E id \in DOMAIN tasks : tasks[id].ShortID # NoShortID

\* the aliases carried by the records of a store, open or not
AliasesIn(st) == {st[id].ShortID[1] : id \in {j \in DOMAIN st : st[j].ShortID # NoShortID}}

\* C15: GenerateNextShortID returns the largest alias carried by any stored
\* record, open or not, plus one, and 1 when no record carries an alias; it
\* never returns an alias some record carries.
C15_NextAliasIsMaxPlusOne ==
    stCall.op = "GenerateNextShortID" =>
        /\ AliasesIn(stCall.before) = {} => stCall.n = 1
        /\ AliasesIn(stCall.before) # {} =>
              /\ stCall.n - 1 \in AliasesIn(stCall.before)
              /\ \A a \in AliasesIn(stCall.before) : a < stCall.n
        /\ stCall.n \notin AliasesIn(stCall.before)
        /\ tasks = stCall.before

\* aliases 1 and 3 are carried, the larger one by a record that is not
\* open, and 4 is returned
C15_Witness ==
    /\ stCall.op = "GenerateNextShortID"
    /\ AliasesIn(stCall.before) = {1, 3}
    /\ \E id \in DOMAIN stCall.before :
          /\ stCall.before[id].Status \in {StatusDone, StatusArchived}
          /\ stCall.before[id].ShortID = SID(3)
    /\ stCall.n = 4

\* the alias after the largest one carried in a store
AliasAfter(st) ==
    IF AliasesIn(st) = {} THEN 1
    ELSE (CHOOSE m \in AliasesIn(st) : \A a \in AliasesIn(st) : a <= m) + 1

\* the store with the file of record t replaced by t
WithRecord(st, t) == [id \in DOMAIN st \cup {t.ID} |-> IF id = t.ID THEN t ELSE st[id]]

\* C16: EnsureShortID changes its record and writes a file only when the
\* record is open and has no alias: it then sets the alias to
\* GenerateNextShortID() and saves the record (a failing save leaves the
\* files as they were and is returned as an error); for any other record it
\* changes nothing and writes nothing.
C16_EnsureShortIDFrame ==
    stCall.op = "EnsureShortID" =>
        IF stCall.arg.Status = StatusOpen /\ stCall.arg.ShortID = NoShortID
        THEN /\ stCall.res.t = [stCall.arg EXCEPT !.ShortID = SID(AliasAfter(stCall.before))]
             /\ stCall.writable => /\ ~stCall.res.err
                                   /\ tasks = WithRecord(stCall.before, stCall.res.t)
             /\ ~stCall.writable => /\ stCall.res.err
                                    /\ tasks = stCall.before
        ELSE /\ stCall.res.t = stCall.arg
             /\ ~stCall.res.err
             /\ tasks = stCall.before

\* EnsureShortID gave an open record without alias the alias after the
\* largest one in use and wrote its file
C16_Witness ==
    /\ stCall.op = "EnsureShortID"
    /\ stCall.writable
    /\ stCall.arg.Status = StatusOpen
    /\ stCall.arg.ShortID = NoShortID
    /\ AliasesIn(stCall.before) # {}
    /\ stCall.res.t.ShortID = SID(AliasAfter(stCall.before))
    /\ tasks # stCall.before
    /\ tasks[stCall.arg.ID] = stCall.res.t

\* C17: whenever ResolveID succeeds, by durable ID or by alias, on an open
\* record that had no alias, the record it returns has an alias and the
\* record's file holds that alias.
C17_ResolvedAliasIsPersisted ==
    (/\ stCall.op = "ResolveID"
     /\ ~stCall.res.err
     /\ loadTask(stCall.before, stCall.res.t.ID).Status = StatusOpen
     /\ loadTask(stCall.before, stCall.res.t.ID).ShortID = NoShortID)
        => /\ stCall.res.t.ShortID # NoShortID
           /\ tasks[stCall.res.t.ID].ShortID = stCall.res.t.ShortID

(***************************************************************************)
(* Properties of GenerateID (SpecID)                                       *)
(***************************************************************************)
\* C18: of two IDs that GenerateID produced at millisecond timestamps
\* t1 < t2, the first is byte-wise less than or equal to the second.
C18_IDsSortByTime ==
    \A i, j \in 1..Len(idGen) :
        MillisLess(idGen[i].ts, idGen[j].ts)
            => ~StringLess(idGen[j].id, idGen[i].id)

(***************************************************************************)
(* Properties of storeBlob (SpecBlob)                                      *)
(***************************************************************************)
\* C19: storeBlob is idempotent: calls that store the same bytes into the
\* same thread directory return the same hash and the same size, and when
\* nothing else was stored there is exactly one blob file.
C19_StoreBlobIdempotent ==
    /\ \A i, j \in 1..Len(blobLog) :
          (/\ blobLog[i].content = blobLog[j].content
           /\ ~blobLog[i].err
           /\ ~blobLog[j].err)
              => /\ blobLog[i].hash = blobLog[j].hash
                 /\ blobLog[i].size = blobLog[j].size
    /\ (/\ \E i \in 1..Len(blobLog) : ~blobLog[i].err
        /\ \A i, j \in 1..Len(blobLog) : blobLog[i].content = blobLog[j].content)
           => Cardinality(DOMAIN blobs) = 1

\* the same bytes were stored twice: the first call wrote the file, the
\* second found it
C19_Witness ==
    /\ Len(blobLog) = 2
    /\ blobLog[1].content = blobLog[2].content
    /\ Len(blobLog[1].content) > 1
    /\ ~blobLog[1].err
    /\ ~blobLog[2].err
    /\ blobLog[1].before = <<>>
    /\ blobLog[2].size = Len(blobLog[2].content)
    /\ DOMAIN blobs = {StoreBlobPath(ThreadDir, blobLog[2].hash)}

\* C20: when a file exists at the hash path of the given bytes, storeBlob
\* leaves its bytes as they are and returns its size; no storeBlob call
\* changes the content of a blob file that exists.
C20_ExistingBlobUntouched ==
    \A i \in 1..Len(blobLog) :
        /\ StoreBlobPath(ThreadDir, Sum256(blobLog[i].content)) \in DOMAIN blobLog[i].before
              => /\ ~blobLog[i].err
                 /\ blobLog[i].after = blobLog[i].before
                 /\ blobLog[i].size =
                       Len(blobLog[i].before[StoreBlobPath(ThreadDir, Sum256(blobLog[i].content))])
        /\ \A f \in DOMAIN blobLog[i].before :
              /\ f \in DOMAIN blobLog[i].after
              /\ blobLog[i].after[f] = blobLog[i].before[f]
        /\ \A f \in DOMAIN blobLog[i].before :
              f \in DOMAIN blobs /\ blobs[f] = blobLog[i].before[f]

\* a write failed half way, the same bytes were stored again and the short
\* file was kept, and other bytes were stored after that
C20_Witness ==
    /\ Len(blobLog) = 3
    /\ blobLog[1].err
    /\ blobLog[2].content = blobLog[1].content
    /\ ~blobLog[2].err
    /\ blobLog[2].size < Len(blobLog[2].content)
    /\ blobLog[3].content # blobLog[1].content
    /\ ~blobLog[3].err
    /\ Cardinality(DOMAIN blobs) = 2
    /\ blobs[StoreBlobPath(ThreadDir, Sum256(blobLog[1].content))] # blobLog[1].content

\* C21: every storeBlob call that returns no error returns the hex SHA-256
\* digest of the bytes and their length, and afterwards a file exists at
\* <thread-dir>/blobs/sha256/<hash[0:2]>/<hash[2:4]>/<hash>.
C21_StoreBlobReturnsHashAndSize ==
    \A i \in 1..Len(blobLog) :
        ~blobLog[i].err
            => /\ blobLog[i].hash = Sum256(blobLog[i].content)
               /\ blobLog[i].size = Len(blobLog[i].content)
               /\ (ThreadDir \o <<DirBlobs, DirSha256, SubSeq(blobLog[i].hash, 1, 2),
                                  SubSeq(blobLog[i].hash, 3, 4), blobLog[i].hash>>)
                      \in DOMAIN blobLog[i].after

(***************************************************************************)
(* Properties of blobPath (SpecPath)                                       *)
(***************************************************************************)
\* the path as written, element by element, before filepath.Join cleans it
BlobPathAsWritten(threadDir, hash) ==
    threadDir \o <<DirBlobs, DirSha256, SubSeq(hash, 1, 2), SubSeq(hash, 3, 4), hash>>

\* C22: blobPath returns the empty path for every blob reference whose
\* algorithm is not sha256 or whose hash has fewer than 4 characters;
\* otherwise it returns <thread-dir>/blobs/sha256/<hash[0:2]>/<hash[2:4]>/<hash>
\* (as filepath.Join cleans it), the path storeBlob uses for that hash.
C22_BlobPathResolves ==
    pathCall.called =>
        IF pathCall.blob.Algo # DirSha256 \/ Len(pathCall.blob.Hash) < 4
        THEN pathCall.path = <<>>
        ELSE /\ pathCall.path # <<>>
             /\ pathCall.path = StoreBlobPath(ThreadDir, pathCall.blob.Hash)
             /\ pathCall.path = Clean(<<>>, BlobPathAsWritten(ThreadDir, pathCall.blob.Hash))
             /\ DotDot \notin {SubSeq(pathCall.blob.Hash, 1, 2), SubSeq(pathCall.blob.Hash, 3, 4)}
                   => pathCall.path = BlobPathAsWritten(ThreadDir, pathCall.blob.Hash)

\* blobPath resolved the digest of a stored payload to the path storeBlob
\* writes
C22_Witness ==
    /\ pathCall.called
    /\ pathCall.blob.Algo = DirSha256
    /\ \E content \in Payloads :
          /\ pathCall.blob.Hash = Sum256(content)
          /\ pathCall.path \in DOMAIN storeBlob(<<>>, ThreadDir, content,
                                    [created |-> TRUE, n |-> Len(content), ok |-> TRUE]).fs

\* C23: a call of updateThreadAttachmentsLog that returns nil leaves
\* thread.json as it was except for attachments_log, now "attachments.jsonl",
\* and the update timestamp; every other field of the file, the field the
\* Task struct does not know included, is as before, and so is every other
\* record file.
AttachLogCalled == stCall.op = "updateThreadAttachmentsLog" /\ ~stCall.res.err

C23_OnlyPointerAndTimestampChange ==
    (AttachLogCalled /\ stCall.runs = 1) =>
        /\ DOMAIN tasks = DOMAIN stCall.before
        /\ \A id \in DOMAIN tasks :
               IF id = stCall.tok.id
               THEN tasks[id] = [stCall.before[id] EXCEPT
                                    !.AttachmentsLog = AttachmentsLogName,
                                    !.UpdatedAt = tasks[id].UpdatedAt]
               ELSE tasks[id] = stCall.before[id]

\* a RunReopen call was made with at least one ID that names no record
UnknownNamed ==
    /\ reopenCall.called
    /\ \E i \in 1..Len(reopenCall.ids) : reopenCall.ids[i].id \notin DOMAIN reopenCall.before

\* C24: when one of the IDs given to RunReopen is unknown the command exits
\* non-zero and no record file is changed: every record, the known ones named
\* in the same call included, has the status, update timestamp and alias it
\* had before.
C24_ReopenAbortsOnUnknownID ==
    [][UnknownNamed' /\ reopenCall' # reopenCall =>
          /\ reopenCall'.code # 0
          /\ DOMAIN tasks' = DOMAIN tasks
          /\ \A id \in DOMAIN tasks :
                 /\ tasks'[id].Status = tasks[id].Status
                 /\ tasks'[id].UpdatedAt = tasks[id].UpdatedAt
                 /\ tasks'[id].ShortID = tasks[id].ShortID]_vars

\* a RunReopen call was made with IDs that all name a record, and returned 0
KnownNamed ==
    /\ reopenCall.called
    /\ \A i \in 1..Len(reopenCall.ids) : reopenCall.ids[i].id \in DOMAIN reopenCall.before
    /\ reopenCall.code = 0

NamedIDs == {reopenCall.ids[i].id : i \in 1..Len(reopenCall.ids)}

\* C25: after RunReopen returns 0 for IDs that all exist, whatever their
\* status, every named record is on file with status open (as read back)
\* and with a short alias, and the file of a named record that was open
\* already is the file it was before the call.
C25_ReopenMakesOpenWithAlias ==
    [][KnownNamed' /\ reopenCall' # reopenCall =>
          \A id \in NamedIDs' :
              /\ loadTask(tasks', id).Status = StatusOpen
              /\ tasks'[id].ShortID # NoShortID
              /\ loadTask(tasks, id).Status = StatusOpen => tasks'[id] = tasks[id]]_vars

\* C26: from an empty workspace, whatever add, done, archive, reopen, update,
\* list, show (resolve) and reindex commands have run, no record file with
\* status done or archived holds a short alias.
C26_AliasOnlyOnActiveRecords ==
    \A id \in DOMAIN tasks :
        tasks[id].Status \in {StatusDone, StatusArchived} => tasks[id].ShortID = NoShortID

\* a done and an archived record on file, each created with an alias
C26_Witness ==
    \E a, b \in DOMAIN tasks :
        /\ tasks[a].Status = StatusDone
        /\ tasks[b].Status = StatusArchived
        /\ tasks[a].UpdatedAt > tasks[a].CreatedAt

\* C27: once updateThreadAttachmentsLog has returned nil for a record, the
\* record file holds attachments_log = "attachments.jsonl" from then on,
\* whatever update, describe, done, archive, reopen, reindex or lookup (lazy
\* alias assignment) saves the record afterwards.
C27_PointerSurvivesSaves ==
    \A id \in logged : tasks[id].AttachmentsLog = AttachmentsLogName

\* C28: a record save is atomic.  Whatever step of FileStore.Save or of the
\* rewrite in updateThreadAttachmentsLog fails, and wherever the process
\* stops, each step leaves the record file holding all of what it held
\* before or all of the new data, never a part of either.
C28_RecordFileNeverPartial ==
    [][\A id \in {ThreadID} :
           \/ disk'[RecordPath(id)] = disk[RecordPath(id)]
           \/ disk'[RecordPath(id)] = File(local[SaveProc], TRUE)]_vars

\* a write to the temporary file has stopped short after an earlier save
\* went through: the record file holds the data of the earlier save
C28_Witness ==
    /\ TmpPath(RecordPath(ThreadID)) \in DOMAIN disk
    /\ ~disk[TmpPath(RecordPath(ThreadID))].complete
    /\ disk[RecordPath(ThreadID)].complete
    /\ disk[RecordPath(ThreadID)].data.UpdatedAt > 1

\* C29: no update, describe, done, archive, reopen, reindex, attach or
\* lookup changes a durable ID: every step leaves the same record files in
\* place, each at the location of the ID it holds, and each holding the ID it
\* held before.
C29_DurableIDNeverChanges ==
    [][/\ DOMAIN tasks' = DOMAIN tasks
       /\ \A id \in DOMAIN tasks : tasks[id].ID = id => tasks'[id].ID = id]_vars

\* a record was rewritten by updateThreadAttachmentsLog and then saved again
\* by a command
C29_Witness ==
    /\ ThreadID \in logged
    /\ stCall.runs = 2
    /\ tasks[ThreadID].AttachmentsLog = NoField
    /\ tasks[ThreadID].ID = ThreadID

\* what a reader of the ledger gets
LedgerEventsRead == loadAttachmentsWithMetadata(ledger).Events

\* the blob file of a blob reference is in the thread's blob store
BlobOnFile(blob) ==
    \E content \in AttachPayloads :
        /\ blob.Algo = "sha256"
        /\ blob.Hash = Text(Sum256(content))
        /\ blobPath(ThreadDir, [Algo |-> DirSha256, Hash |-> Sum256(content)]) \in DOMAIN blobs

NoteEventsHaveBlobs ==
    \A i \in 1..Len(LedgerEventsRead) :
        (LedgerEventsRead[i].Op = "add" /\ LedgerEventsRead[i].Att.Kind = "note")
            => BlobOnFile(LedgerEventsRead[i].Att.Blob)

\* C30: attach stores the blob, then appends the add event, then updates the
\* record, and stops at the first step that fails.  So in every reachable
\* state every note add event of the ledger names a blob file that is in the
\* blob store, and a record file holds the ledger pointer only if the
\* ledger holds at least one event.
C30_LedgerBacksPointerAndBlobs ==
    /\ NoteEventsHaveBlobs
    /\ \A id \in DOMAIN tasks :
           tasks[id].AttachmentsLog = AttachmentsLogName => Len(LedgerEventsRead) >= 1

====
